---- MODULE Spec2Model ----
(***************************************************************************)
(* Model of inventario_app.py: the in-memory tables kept in                *)
(* st.session_state, the Google Sheets spreadsheet behind them, and one    *)
(* action per user interaction.  Every action is one complete Streamlit    *)
(* script run (plus the second run that st.rerun() starts), so it carries  *)
(* the side effects of every section the run executes: the Panel section   *)
(* adding columns to Inventario and the Auditoria Semanal section          *)
(* appending its summary.                                                  *)
(*                                                                         *)
(* Quantities are exact integers counted in thousandths (0.1 bottle = 100, *)
(* 1 ml of an ingredient = 1), so the float arithmetic of the program is   *)
(* modelled without rounding.  Dates are day numbers, day 0 a Monday.      *)
(***************************************************************************)
EXTENDS Integers, Sequences, FiniteSets, TLC

VARIABLES session_state, sheets, hoy, ev

vars == <<session_state, sheets, hoy, ev>>

\* ------------------------------------------------------------------------
\* Bounds of the model
\* ------------------------------------------------------------------------
MaxInventario == 3
MaxAuditorias == 2
MaxSemanal == 4
MaxCatalogo == 3
MaxRecetas == 3

\* ------------------------------------------------------------------------
\* Program constants
\* ------------------------------------------------------------------------
UBICACIONES == <<"Almacen", "Bar", "Vinera">>

EXTERNO == "Cliente/Externo"

USUARIOS == [bar1 |-> "bartender", almacen |-> "almacenista", gerente |-> "admin", supervisor |-> "supervisor"]

TodosLosModulos == {"panel", "stock", "salidas", "entradas", "transferencias", "devoluciones", "recetas", "auditoria_diaria", "auditoria_semanal", "historial", "catalogo"}

allowed_tabs_by_role == [bartender |-> {"panel", "salidas", "devoluciones", "stock", "historial", "recetas"}, almacenista |-> TodosLosModulos, admin |-> TodosLosModulos, supervisor |-> {"panel", "stock", "auditoria_diaria", "auditoria_semanal", "historial"}]

hojas_y_columnas == [Catalogo |-> <<"Nombre", "Tipo", "ML", "Stock Min">>, Inventario |-> <<"Fecha", "Tipo", "Producto", "Cantidad", "Ubicacion", "Usuario">>, Entradas |-> <<"Fecha", "Producto", "Cantidad", "Usuario", "Ubicacion">>, Salidas |-> <<"Fecha", "Producto/Trago", "Cantidad", "Usuario", "Ubicacion", "Tipo">>, Transferencias |-> <<"Fecha", "Producto", "Cantidad", "Origen", "Destino", "Usuario">>, Devoluciones |-> <<"Fecha", "Producto", "Cantidad", "Origen", "Destino", "Usuario", "Motivo">>, Recetas |-> <<"Trago", "Ingrediente", "Cantidad_ml">>, StockFisico |-> <<"Fecha", "Producto", "Ubicacion", "Turno", "Stock_Fisico">>, Auditoria_Diaria |-> <<"Fecha", "Producto", "Ubicacion", "Turno", "Stock_Teorico", "Stock_Fisico", "Diferencia">>, Auditoria_Semanal |-> <<"Semana", "Producto", "Ubicacion", "Diferencia_Acumulada">>, Consumos |-> <<"Fecha", "Trago", "Ingrediente", "Cantidad_Usada", "Ubicacion", "Usuario">>]

\* The sheets in the order the start-up loop and the refresh visit them.
Hojas == <<"Catalogo", "Inventario", "Entradas", "Salidas", "Transferencias", "Devoluciones", "Recetas", "StockFisico", "Auditoria_Diaria", "Auditoria_Semanal", "Consumos">>

\* min_value of the quantity inputs of the four bottle recorders (0.1).
MIN_CANTIDAD == 100

\* min_value of "Cantidad de tragos servidos".
MIN_TRAGOS == 1

\* One bottle / one unit, and the divisor of ml -> litres, in thousandths.
UNIDAD == 1000

\* ------------------------------------------------------------------------
\* Small helpers
\* ------------------------------------------------------------------------
Rango(s) == {s[i] : i \in 1..Len(s)}

Min(a, b) == IF a < b THEN a ELSE b

Ubic == Rango(UBICACIONES)

\* Product names in the order pandas sorts them (string order).  "None" is
\* the text a missing product name has once it was read back from a sheet.
Nombres == <<"None", "Ron", "Soda">>

\* Every (product, location) key in the order groupby sorts its groups.
Claves == [n \in 1..(Len(Nombres) * Len(UBICACIONES)) |-> <<Nombres[((n - 1) \div Len(UBICACIONES)) + 1], UBICACIONES[((n - 1) % Len(UBICACIONES)) + 1]>>]

\* ------------------------------------------------------------------------
\* DataFrames: a header (columnas) and the rows (filas)
\* ------------------------------------------------------------------------
DataFrame(columnas, filas) == [columnas |-> columnas, filas |-> filas]

\* pd.DataFrame(): no columns, no rows.
DataFrameVacio == DataFrame(<<>>, <<>>)

empty(df) == df.filas = <<>> \/ df.columnas = <<>>

\* pd.concat([a, b], ignore_index=True): rows of a then rows of b, columns
\* of a followed by the columns only b has.
concat(a, b) == DataFrame(a.columnas \o SelectSeq(b.columnas, LAMBDA c : c \notin Rango(a.columnas)), a.filas \o b.filas)

\* df.astype(str) as far as a later read can tell: a datetime or date in
\* Fecha becomes its text; numbers are written as their decimal text, which
\* get_all_records reads back as the same number, so they are kept.
\* A missing value (None) is written as the text "None".
NONE == "<None>"

str_valor(v) == IF v = NONE THEN "None" ELSE v

fila_a_texto(f) ==
    LET f1 == IF "Fecha" \in DOMAIN f THEN [f EXCEPT !.Fecha = [t |-> "str", d |-> @.d]] ELSE f
        f2 == IF "Producto" \in DOMAIN f1 THEN [f1 EXCEPT !.Producto = str_valor(@)] ELSE f1
    IN  IF "Ingrediente" \in DOMAIN f2 THEN [f2 EXCEPT !.Ingrediente = str_valor(@)] ELSE f2

astype_str(df) == DataFrame(df.columnas, [i \in 1..Len(df.filas) |-> fila_a_texto(df.filas[i])])

\* ------------------------------------------------------------------------
\* The world a script run works on: this session's st.session_state, the
\* spreadsheet, the outcomes of the Sheets calls still to come (red) and
\* the sheets the run tried to write (escrituras).
\* ------------------------------------------------------------------------
RedOk == [r |-> "ok", k |-> 0]

Mundo(mem, hojas, red) == [mem |-> mem, sheets |-> hojas, red |-> red, red0 |-> red, escrituras |-> <<>>]

Resultado(w) == IF w.red = <<>> THEN RedOk ELSE Head(w.red)

Consumir(w) == IF w.red = <<>> THEN <<>> ELSE Tail(w.red)

\* Variant: the rows are appended below what the sheet already holds.
exportar_a_google_sheets_sin_clear(w, nombre_pestana, df) ==
    LET texto == astype_str(df)
        escrito == DataFrame(texto.columnas, w.sheets[nombre_pestana].filas \o texto.filas)
    IN  [w EXCEPT !.sheets[nombre_pestana] = escrito, !.red = Consumir(w), !.escrituras = Append(@, nombre_pestana)]

\* exportar_a_google_sheets: clear the sheet, write the header, then the
\* rows one by one.  An exception is swallowed; what the sheet holds then
\* depends on where it was raised: before ws.clear() ("antes": untouched),
\* or after k rows were appended ("corte").
exportar_a_google_sheets(w, nombre_pestana, df) ==
    LET o == Resultado(w)
        texto == astype_str(df)
        escrito == CASE o.r = "ok" -> texto
                     [] o.r = "antes" -> w.sheets[nombre_pestana]
                     [] OTHER -> DataFrame(texto.columnas, SubSeq(texto.filas, 1, Min(o.k, Len(texto.filas))))
    IN  [w EXCEPT !.sheets[nombre_pestana] = escrito, !.red = Consumir(w), !.escrituras = Append(@, nombre_pestana)]

\* importar_de_google_sheets: get_all_records() of the sheet; any exception,
\* and a sheet without data rows, give an empty DataFrame.
importar_de_google_sheets(w, nombre_pestana) ==
    LET o == Resultado(w)
        hoja == w.sheets[nombre_pestana]
    IN  IF o.r # "ok" \/ hoja.filas = <<>> THEN DataFrameVacio ELSE hoja

\* inicializar_dataframe_en_estado for one sheet.
inicializar_dataframe_en_estado(w, nombre, columnas) ==
    LET df == importar_de_google_sheets(w, nombre)
        w1 == [w EXCEPT !.red = Consumir(w)]
    IN  IF empty(df) /\ columnas # <<>>
        THEN LET nuevo == DataFrame(columnas, <<>>)
                 w2 == exportar_a_google_sheets(w1, nombre, nuevo)
             IN  [w2 EXCEPT !.mem[nombre] = nuevo]
        ELSE [w1 EXCEPT !.mem[nombre] = DataFrame(columnas, df.filas)]

\* Variant: the in-memory ledger is put back when the export fails.
actualizar_inventario_registro_reversible(w, registro) ==
    LET inv_nuevo == concat(w.mem.Inventario, registro)
        w1 == [w EXCEPT !.mem.Inventario = inv_nuevo]
    IN  IF Resultado(w).r = "ok" THEN exportar_a_google_sheets(w1, "Inventario", astype_str(inv_nuevo)) ELSE exportar_a_google_sheets(w, "Inventario", astype_str(inv_nuevo))

\* actualizar_inventario_registro
actualizar_inventario_registro(w, registro) ==
    LET inv_nuevo == concat(w.mem.Inventario, registro)
        w1 == [w EXCEPT !.mem.Inventario = inv_nuevo]
    IN  exportar_a_google_sheets(w1, "Inventario", astype_str(inv_nuevo))

\* ------------------------------------------------------------------------
\* groupby([Producto, Ubicacion]).sum() and calcular_stock
\* ------------------------------------------------------------------------
RECURSIVE SumaGrupo(_, _, _, _)
SumaGrupo(filas, campo, p, l) ==
    IF filas = <<>> THEN 0
    ELSE LET f == Head(filas)
         IN  (IF f.Producto = p /\ f.Ubicacion = l THEN f[campo] ELSE 0) + SumaGrupo(Tail(filas), campo, p, l)

EnGrupo(filas, k) == \E i \in 1..Len(filas) : filas[i].Producto = k[1] /\ filas[i].Ubicacion = k[2]

\* Variant: grouping by product only, every location showing the product's total.
groupby_sum_por_producto(filas, campo) ==
    LET presentes == SelectSeq(Claves, LAMBDA k : EnGrupo(filas, k))
    IN  [n \in 1..Len(presentes) |-> [Producto |-> presentes[n][1], Ubicacion |-> presentes[n][2], Suma |-> SumaGrupo(filas, campo, presentes[n][1], "Almacen") + SumaGrupo(filas, campo, presentes[n][1], "Bar")]]

groupby_sum(filas, campo) ==
    LET presentes == SelectSeq(Claves, LAMBDA k : EnGrupo(filas, k))
    IN  [n \in 1..Len(presentes) |-> [Producto |-> presentes[n][1], Ubicacion |-> presentes[n][2], Suma |-> SumaGrupo(filas, campo, presentes[n][1], presentes[n][2])]]

calcular_stock(inventario) ==
    IF empty(inventario) THEN <<>>
    ELSE LET g == groupby_sum(inventario.filas, "Cantidad")
         IN  [n \in 1..Len(g) |-> [Producto |-> g[n].Producto, Ubicacion |-> g[n].Ubicacion, Stock |-> g[n].Suma]]

\* ------------------------------------------------------------------------
\* Widgets
\* ------------------------------------------------------------------------
\* Variant: a number input without min_value.
number_input_libre(valor, min_value) == TRUE

\* st.number_input(min_value=m): the widget only ever returns a value >= m.
number_input(valor, min_value) == valor >= min_value

\* Variant: a free-text field instead of a selectbox.
selectbox_libre(valor, opciones) == TRUE

\* st.selectbox(options): the widget returns one of its options.
selectbox(valor, opciones) == valor \in opciones

\* df[col].unique()
unique(df, col) == {df.filas[i][col] : i \in 1..Len(df.filas)}

\* usuario_con_acceso
usuario_con_acceso(mem, rol_requerido) == mem.rol \in rol_requerido

tab_dict(mem) == IF mem.rol \in DOMAIN allowed_tabs_by_role THEN allowed_tabs_by_role[mem.rol] ELSE {}

\* ------------------------------------------------------------------------
\* Sections every script run executes
\* ------------------------------------------------------------------------
\* Sidebar: the selected user's role is stored on every run.
Sidebar(w, usuario) == [w EXCEPT !.mem.usuario = usuario, !.mem.rol = USUARIOS[usuario]]

\* Panel: with movements present, two columns are assigned on the very
\* DataFrame held in st.session_state["Inventario"].
SeccionPanel(w) ==
    IF "panel" \in tab_dict(w.mem) /\ ~empty(w.mem.Inventario)
    THEN [w EXCEPT !.mem.Inventario = concat(@, DataFrame(<<"Fecha_dt", "Dia">>, <<>>))]
    ELSE w

\* Monday of the week of hoy, and the previous week's Monday..Sunday.
weekday(d) == d % 7

inicio_semana(d) == d - weekday(d)

fin_semana(d) == inicio_semana(d) - 1

inicio_semana_ant(d) == fin_semana(d) - 6

\* strftime("%Y-%W") of a Monday, as the number of its week.
semana_id(d) == d \div 7

\* Variant: the filter has no upper end.
mask_abierta(f, d) == f.Fecha.d >= inicio_semana_ant(d)

\* The filter of the audits of the previous week.
mask(f, d) == f.Fecha.d >= inicio_semana_ant(d) /\ f.Fecha.d <= fin_semana(d)

\* Variant: each pair keeps the difference of its last audit only.
resumen_ultima(semana_df) ==
    LET g == groupby_sum(semana_df, "Diferencia")
        ultima(p, l) == semana_df[CHOOSE i \in 1..Len(semana_df) : semana_df[i].Producto = p /\ semana_df[i].Ubicacion = l /\ \A j \in (i + 1)..Len(semana_df) : ~(semana_df[j].Producto = p /\ semana_df[j].Ubicacion = l)]
    IN  [n \in 1..Len(g) |-> [g[n] EXCEPT !.Suma = ultima(g[n].Producto, g[n].Ubicacion).Diferencia]]

\* groupby([Producto, Ubicacion])["Diferencia"].sum() of the week's audits.
resumen(semana_df) == groupby_sum(semana_df, "Diferencia")

\* Variant: the summary is appended and exported whatever the role.
SeccionSemanal_sin_rol(w, d) ==
    IF "auditoria_semanal" \notin tab_dict(w.mem) \/ empty(w.mem.Auditoria_Diaria) THEN w
    ELSE LET semana_df == SelectSeq(w.mem.Auditoria_Diaria.filas, LAMBDA f : mask(f, d))
             g == resumen(semana_df)
             resumen_reg == [n \in 1..Len(g) |-> [Semana |-> semana_id(inicio_semana_ant(d)), Producto |-> g[n].Producto, Ubicacion |-> g[n].Ubicacion, Diferencia_Acumulada |-> g[n].Suma]]
         IN  IF semana_df = <<>> THEN w
             ELSE LET df_aud_sem == concat(w.mem.Auditoria_Semanal, DataFrame(hojas_y_columnas.Auditoria_Semanal, resumen_reg))
                      w1 == [w EXCEPT !.mem.Auditoria_Semanal = df_aud_sem]
                  IN  exportar_a_google_sheets(w1, "Auditoria_Semanal", df_aud_sem)

\* Auditoria Semanal: the summary of last week's audits is computed on
\* every run, and appended and exported when the role may write.
SeccionSemanal(w, d) ==
    IF "auditoria_semanal" \notin tab_dict(w.mem) \/ empty(w.mem.Auditoria_Diaria) THEN w
    ELSE LET semana_df == SelectSeq(w.mem.Auditoria_Diaria.filas, LAMBDA f : mask(f, d))
             g == resumen(semana_df)
             resumen_reg == [n \in 1..Len(g) |-> [Semana |-> semana_id(inicio_semana_ant(d)), Producto |-> g[n].Producto, Ubicacion |-> g[n].Ubicacion, Diferencia_Acumulada |-> g[n].Suma]]
         IN  IF semana_df = <<>> \/ w.mem.rol \notin {"almacenista", "admin"} THEN w
             ELSE LET df_aud_sem == concat(w.mem.Auditoria_Semanal, DataFrame(hojas_y_columnas.Auditoria_Semanal, resumen_reg))
                      w1 == [w EXCEPT !.mem.Auditoria_Semanal = df_aud_sem]
                  IN  exportar_a_google_sheets(w1, "Auditoria_Semanal", df_aud_sem)

\* A script run in which no form is submitted (also what st.rerun() starts).
ScriptSinEnvio(w, d) == SeccionSemanal(SeccionPanel(Sidebar(w, w.mem.usuario)), d)

\* ------------------------------------------------------------------------
\* Start-up and refresh
\* ------------------------------------------------------------------------
SesionNueva == [iniciada |-> FALSE, usuario |-> "", rol |-> "", Catalogo |-> DataFrameVacio, Inventario |-> DataFrameVacio, Entradas |-> DataFrameVacio, Salidas |-> DataFrameVacio, Transferencias |-> DataFrameVacio, Devoluciones |-> DataFrameVacio, Recetas |-> DataFrameVacio, StockFisico |-> DataFrameVacio, Auditoria_Diaria |-> DataFrameVacio, Auditoria_Semanal |-> DataFrameVacio, Consumos |-> DataFrameVacio]

\* The loop "for hoja, columnas in hojas_y_columnas.items()" of start-up.
RECURSIVE CargaInicial(_, _)
CargaInicial(w, i) ==
    IF i > Len(Hojas) THEN w
    ELSE CargaInicial(inicializar_dataframe_en_estado(w, Hojas[i], hojas_y_columnas[Hojas[i]]), i + 1)

\* The loop of the "Actualizar datos" button.
RECURSIVE Recarga(_, _)
Recarga(w, i) ==
    IF i > Len(Hojas) THEN w
    ELSE LET df == importar_de_google_sheets(w, Hojas[i])
             df2 == IF empty(df) /\ hojas_y_columnas[Hojas[i]] # <<>> THEN DataFrame(hojas_y_columnas[Hojas[i]], <<>>) ELSE df
         IN  Recarga([w EXCEPT !.red = Consumir(w), !.mem[Hojas[i]] = df2], i + 1)

actualizar_datos(w, d) == ScriptSinEnvio(Recarga(w, 1), d)

\* ------------------------------------------------------------------------
\* The form handlers, each from the top of its script run
\* ------------------------------------------------------------------------
FechaHora(f) == [t |-> "datetime", d |-> f]

Movimiento(f, tipo, producto, cantidad, ubicacion, usuario) == [Fecha |-> FechaHora(f), Tipo |-> tipo, Producto |-> producto, Cantidad |-> cantidad, Ubicacion |-> ubicacion, Usuario |-> usuario]

\* Variant: the entry is written with the sign of an exit.
registro_entrada_negada(fecha, producto, cantidad, ubicacion, usuario) == Movimiento(fecha, "Entrada", producto, -cantidad, ubicacion, usuario)

\* The record "Registrar Entrada" builds.
registro_entrada(fecha, producto, cantidad, ubicacion, usuario) == Movimiento(fecha, "Entrada", producto, cantidad, ubicacion, usuario)

\* "Registrar Entrada"
form_entrada(w0, d, producto, cantidad, ubicacion, fecha) ==
    LET w == SeccionPanel(Sidebar(w0, w0.mem.usuario))
        registro == DataFrame(hojas_y_columnas.Inventario, <<registro_entrada(fecha, producto, cantidad, ubicacion, w.mem.usuario)>>)
        w1 == actualizar_inventario_registro(w, registro)
        df_entradas == concat(w1.mem.Entradas, registro)
        w2 == exportar_a_google_sheets([w1 EXCEPT !.mem.Entradas = df_entradas], "Entradas", df_entradas)
    IN  ScriptSinEnvio(w2, d)

\* Variant: the origin is credited instead of debited.
registros_transferencia_abono(fecha, producto, cantidad, origen, destino, usuario) == <<Movimiento(fecha, "Transferencia", producto, cantidad, origen, usuario), Movimiento(fecha, "Transferencia", producto, cantidad, destino, usuario)>>

\* registro_origen and registro_destino of a transfer.
registros_transferencia(fecha, producto, cantidad, origen, destino, usuario) == <<Movimiento(fecha, "Transferencia", producto, -cantidad, origen, usuario), Movimiento(fecha, "Transferencia", producto, cantidad, destino, usuario)>>

\* Variant: the record of the transfer is not added to the log.
form_transferencia_sin_bitacora(w0, d, producto, cantidad, origen, destino, fecha) ==
    LET w == SeccionPanel(Sidebar(w0, w0.mem.usuario))
        registros == DataFrame(hojas_y_columnas.Inventario, registros_transferencia(fecha, producto, cantidad, origen, destino, w.mem.usuario))
        w1 == actualizar_inventario_registro(w, registros)
        registro_transf == DataFrame(hojas_y_columnas.Transferencias, <<[Fecha |-> FechaHora(fecha), Producto |-> producto, Cantidad |-> cantidad, Origen |-> origen, Destino |-> destino, Usuario |-> w.mem.usuario]>>)
        df_transf == w1.mem.Transferencias
        w2 == exportar_a_google_sheets([w1 EXCEPT !.mem.Transferencias = df_transf], "Transferencias", df_transf)
    IN  IF origen = destino
        THEN SeccionSemanal(w, d)
        ELSE ScriptSinEnvio(w2, d)

\* "Registrar Transferencia"
form_transferencia(w0, d, producto, cantidad, origen, destino, fecha) ==
    LET w == SeccionPanel(Sidebar(w0, w0.mem.usuario))
        registros == DataFrame(hojas_y_columnas.Inventario, registros_transferencia(fecha, producto, cantidad, origen, destino, w.mem.usuario))
        w1 == actualizar_inventario_registro(w, registros)
        registro_transf == DataFrame(hojas_y_columnas.Transferencias, <<[Fecha |-> FechaHora(fecha), Producto |-> producto, Cantidad |-> cantidad, Origen |-> origen, Destino |-> destino, Usuario |-> w.mem.usuario]>>)
        df_transf == concat(w1.mem.Transferencias, registro_transf)
        w2 == exportar_a_google_sheets([w1 EXCEPT !.mem.Transferencias = df_transf], "Transferencias", df_transf)
    IN  IF origen = destino
        THEN SeccionSemanal(w, d)
        ELSE ScriptSinEnvio(w2, d)

\* Variant: the origin is debited whatever it is.
movimientos_devolucion_siempre(fecha, producto, cantidad, origen, destino, usuario) == <<Movimiento(fecha, "Devolucion", producto, -cantidad, origen, usuario), Movimiento(fecha, "Devolucion", producto, cantidad, destino, usuario)>>

\* The list "movimientos" of a return.
movimientos_devolucion(fecha, producto, cantidad, origen, destino, usuario) ==
    LET salida == IF origen # EXTERNO THEN <<Movimiento(fecha, "Devolucion", producto, -cantidad, origen, usuario)>> ELSE <<>>
    IN  Append(salida, Movimiento(fecha, "Devolucion", producto, cantidad, destino, usuario))

\* "Registrar Devolucion"
form_devolucion(w0, d, producto, cantidad, origen, destino, fecha, motivo) ==
    LET w == SeccionPanel(Sidebar(w0, w0.mem.usuario))
        movimientos == movimientos_devolucion(fecha, producto, cantidad, origen, destino, w.mem.usuario)
        w1 == actualizar_inventario_registro(w, DataFrame(hojas_y_columnas.Inventario, movimientos))
        registro_dev == DataFrame(hojas_y_columnas.Devoluciones, <<[Fecha |-> FechaHora(fecha), Producto |-> producto, Cantidad |-> cantidad, Origen |-> origen, Destino |-> destino, Usuario |-> w.mem.usuario, Motivo |-> motivo]>>)
        df_dev == concat(w1.mem.Devoluciones, registro_dev)
        w2 == exportar_a_google_sheets([w1 EXCEPT !.mem.Devoluciones = df_dev], "Devoluciones", df_dev)
    IN  ScriptSinEnvio(w2, d)

\* Variant: the exit is written with the sign of an entry.
registro_salida_botella_abono(fecha, producto, cantidad, ubicacion, usuario) == Movimiento(fecha, "Salida Botella", producto, cantidad, ubicacion, usuario)

\* The ledger record "Registrar Botella" builds.
registro_salida_botella(fecha, producto, cantidad, ubicacion, usuario) == Movimiento(fecha, "Salida Botella", producto, -cantidad, ubicacion, usuario)

\* Variant: the exit is recorded only when the location holds the quantity.
form_salida_botellas_con_existencia(w0, d, producto, cantidad, ubicacion, fecha) ==
    LET w == SeccionPanel(Sidebar(w0, w0.mem.usuario))
        fila == SelectSeq(calcular_stock(w.mem.Inventario), LAMBDA f : f.Producto = producto /\ f.Ubicacion = ubicacion)
        registro_inv == DataFrame(hojas_y_columnas.Inventario, <<registro_salida_botella(fecha, producto, cantidad, ubicacion, w.mem.usuario)>>)
        w1 == actualizar_inventario_registro(w, registro_inv)
        nueva_salida == [Fecha |-> FechaHora(fecha), ProductoTrago |-> producto, Cantidad |-> -cantidad, Usuario |-> w.mem.usuario, Ubicacion |-> ubicacion, Tipo |-> "Salida Botella"]
        df_sal == concat(w1.mem.Salidas, DataFrame(hojas_y_columnas.Salidas, <<nueva_salida>>))
        w2 == exportar_a_google_sheets([w1 EXCEPT !.mem.Salidas = df_sal], "Salidas", df_sal)
    IN  IF fila = <<>> \/ fila[1].Stock < cantidad THEN ScriptSinEnvio(w, d) ELSE ScriptSinEnvio(w2, d)

\* "Registrar Botella"
form_salida_botellas(w0, d, producto, cantidad, ubicacion, fecha) ==
    LET w == SeccionPanel(Sidebar(w0, w0.mem.usuario))
        registro_inv == DataFrame(hojas_y_columnas.Inventario, <<registro_salida_botella(fecha, producto, cantidad, ubicacion, w.mem.usuario)>>)
        w1 == actualizar_inventario_registro(w, registro_inv)
        nueva_salida == [Fecha |-> FechaHora(fecha), ProductoTrago |-> producto, Cantidad |-> -cantidad, Usuario |-> w.mem.usuario, Ubicacion |-> ubicacion, Tipo |-> "Salida Botella"]
        df_sal == concat(w1.mem.Salidas, DataFrame(hojas_y_columnas.Salidas, <<nueva_salida>>))
        w2 == exportar_a_google_sheets([w1 EXCEPT !.mem.Salidas = df_sal], "Salidas", df_sal)
    IN  ScriptSinEnvio(w2, d)

\* Variant: the servings are left out of the product.
cantidad_litros_un_trago(ml_valor, cantidad_tragos) == (ml_valor * UNIDAD) \div 1000

\* Litres of an ingredient used by the servings (in thousandths).
cantidad_litros(ml_valor, cantidad_tragos) == (ml_valor * cantidad_tragos * UNIDAD) \div 1000

\* Variant: the summary record counts one serving whatever was typed.
form_salida_tragos_un_trago(w0, d, trago, cantidad_tragos, ubicacion, fecha) ==
    LET w == SeccionPanel(Sidebar(w0, w0.mem.usuario))
        ingredientes == SelectSeq(w.mem.Recetas.filas, LAMBDA r : r.Trago = trago)
        salidas_registros == [i \in 1..Len(ingredientes) |-> Movimiento(fecha, "Salida Trago", ingredientes[i].Ingrediente, -cantidad_litros(ingredientes[i].Cantidad_ml, cantidad_tragos), ubicacion, w.mem.usuario)]
        w1 == actualizar_inventario_registro(w, DataFrame(hojas_y_columnas.Inventario, salidas_registros))
        registro_trago == [Fecha |-> FechaHora(fecha), ProductoTrago |-> trago, Cantidad |-> -UNIDAD, Usuario |-> w.mem.usuario, Ubicacion |-> ubicacion, Tipo |-> "Salida Trago"]
        df_sal == concat(w1.mem.Salidas, DataFrame(hojas_y_columnas.Salidas, <<registro_trago>>))
        w2 == exportar_a_google_sheets([w1 EXCEPT !.mem.Salidas = df_sal], "Salidas", df_sal)
        consumos_nuevos == [i \in 1..Len(salidas_registros) |-> [Fecha |-> salidas_registros[i].Fecha, Trago |-> trago, Ingrediente |-> salidas_registros[i].Producto, Cantidad_Usada |-> -salidas_registros[i].Cantidad, Ubicacion |-> ubicacion, Usuario |-> w.mem.usuario]]
        df_consumos == concat(w2.mem.Consumos, DataFrame(hojas_y_columnas.Consumos, consumos_nuevos))
        w3 == exportar_a_google_sheets([w2 EXCEPT !.mem.Consumos = df_consumos], "Consumos", df_consumos)
    IN  ScriptSinEnvio(w3, d)

\* "Registrar Trago"
form_salida_tragos(w0, d, trago, cantidad_tragos, ubicacion, fecha) ==
    LET w == SeccionPanel(Sidebar(w0, w0.mem.usuario))
        ingredientes == SelectSeq(w.mem.Recetas.filas, LAMBDA r : r.Trago = trago)
        salidas_registros == [i \in 1..Len(ingredientes) |-> Movimiento(fecha, "Salida Trago", ingredientes[i].Ingrediente, -cantidad_litros(ingredientes[i].Cantidad_ml, cantidad_tragos), ubicacion, w.mem.usuario)]
        w1 == actualizar_inventario_registro(w, DataFrame(hojas_y_columnas.Inventario, salidas_registros))
        registro_trago == [Fecha |-> FechaHora(fecha), ProductoTrago |-> trago, Cantidad |-> -(cantidad_tragos * UNIDAD), Usuario |-> w.mem.usuario, Ubicacion |-> ubicacion, Tipo |-> "Salida Trago"]
        df_sal == concat(w1.mem.Salidas, DataFrame(hojas_y_columnas.Salidas, <<registro_trago>>))
        w2 == exportar_a_google_sheets([w1 EXCEPT !.mem.Salidas = df_sal], "Salidas", df_sal)
        consumos_nuevos == [i \in 1..Len(salidas_registros) |-> [Fecha |-> salidas_registros[i].Fecha, Trago |-> trago, Ingrediente |-> salidas_registros[i].Producto, Cantidad_Usada |-> -salidas_registros[i].Cantidad, Ubicacion |-> ubicacion, Usuario |-> w.mem.usuario]]
        df_consumos == concat(w2.mem.Consumos, DataFrame(hojas_y_columnas.Consumos, consumos_nuevos))
        w3 == exportar_a_google_sheets([w2 EXCEPT !.mem.Consumos = df_consumos], "Consumos", df_consumos)
    IN  ScriptSinEnvio(w3, d)

\* "Agregar al Catalogo"
form_catalogo(w0, d, nombre, tipo, capacidad_ml, stock_minimo) ==
    LET w == SeccionPanel(Sidebar(w0, w0.mem.usuario))
        nuevo == DataFrame(<<"Nombre", "Tipo", "Categoria", "ML", "Stock Min">>, <<[Nombre |-> nombre, Tipo |-> tipo, ML |-> capacidad_ml, StockMin |-> stock_minimo]>>)
        catalogo == concat(w.mem.Catalogo, nuevo)
        w1 == exportar_a_google_sheets([w EXCEPT !.mem.Catalogo = catalogo], "Catalogo", catalogo)
    IN  IF nombre = "" THEN SeccionSemanal(w, d) ELSE SeccionSemanal(w1, d)

\* "Registrar Receta": the Recetas section comes after Auditoria Semanal.
form_receta(w0, d, nombre_trago, receta_data) ==
    LET w == ScriptSinEnvio(w0, d)
        recetas == concat(w.mem.Recetas, DataFrame(hojas_y_columnas.Recetas, receta_data))
        w1 == exportar_a_google_sheets([w EXCEPT !.mem.Recetas = recetas], "Recetas", recetas)
    IN  IF nombre_trago = "" THEN w ELSE ScriptSinEnvio(w1, d)

\* The rows the "Registrar auditoria" sub-tab lists for a location filter.
df_teo(mem, ubicacion_sel) ==
    LET stock_teorico == calcular_stock(mem.Inventario)
    IN  IF ubicacion_sel = "Todas" THEN stock_teorico ELSE SelectSeq(stock_teorico, LAMBDA r : r.Ubicacion = ubicacion_sel)

\* Variant: the difference is taken the other way round.
fila_auditoria_invertida(fila, fecha_audit, turno, fisico) == [Fecha |-> [t |-> "date", d |-> fecha_audit], Producto |-> fila.Producto, Ubicacion |-> fila.Ubicacion, Turno |-> turno, Stock_Teorico |-> fila.Stock, Stock_Fisico |-> fisico, Diferencia |-> fila.Stock - fisico]

\* One element of filas_guardar.
fila_auditoria(fila, fecha_audit, turno, fisico) == [Fecha |-> [t |-> "date", d |-> fecha_audit], Producto |-> fila.Producto, Ubicacion |-> fila.Ubicacion, Turno |-> turno, Stock_Teorico |-> fila.Stock, Stock_Fisico |-> fisico, Diferencia |-> fisico - fila.Stock]

\* The physical-count number_input (value=0) of one row: what the operator
\* typed, or the initial value when the field was left alone.
aud_fisico(tecleado) == IF tecleado = <<>> THEN 0 ELSE tecleado[1]

\* st.session_state.get(key, default) over the widget values of the run.
session_state_get(valores, key, default) == IF key \in DOMAIN valores THEN valores[key] ELSE default

\* Variant: StockFisico receives the theoretical stock of each row.
guardar_auditoria_teorico(w0, d, fecha_audit, turno, ubicacion_sel, fisico) ==
    LET w == SeccionPanel(Sidebar(w0, w0.mem.usuario))
        teo == df_teo(w.mem, ubicacion_sel)
        filas_guardar == [n \in 1..Len(teo) |-> fila_auditoria(teo[n], fecha_audit, turno, session_state_get(fisico, n, teo[n].Stock))]
        filas_fisico == [n \in 1..Len(teo) |-> [Fecha |-> filas_guardar[n].Fecha, Producto |-> filas_guardar[n].Producto, Ubicacion |-> filas_guardar[n].Ubicacion, Turno |-> turno, Stock_Fisico |-> filas_guardar[n].Stock_Teorico]]
        df_stockfis == concat(w.mem.StockFisico, DataFrame(hojas_y_columnas.StockFisico, filas_fisico))
        w1 == exportar_a_google_sheets([w EXCEPT !.mem.StockFisico = df_stockfis], "StockFisico", df_stockfis)
        df_aud_diaria == concat(w1.mem.Auditoria_Diaria, DataFrame(hojas_y_columnas.Auditoria_Diaria, filas_guardar))
        w2 == exportar_a_google_sheets([w1 EXCEPT !.mem.Auditoria_Diaria = df_aud_diaria], "Auditoria_Diaria", df_aud_diaria)
    IN  IF teo = <<>> THEN w ELSE SeccionSemanal(w2, d)

\* "Guardar auditoria".  fisico[n] is the value of the n-th row's
\* number_input.  With no row in scope df_guardar has no columns and the
\* column selection raises: the run ends there.
guardar_auditoria(w0, d, fecha_audit, turno, ubicacion_sel, fisico) ==
    LET w == SeccionPanel(Sidebar(w0, w0.mem.usuario))
        teo == df_teo(w.mem, ubicacion_sel)
        filas_guardar == [n \in 1..Len(teo) |-> fila_auditoria(teo[n], fecha_audit, turno, session_state_get(fisico, n, teo[n].Stock))]
        filas_fisico == [n \in 1..Len(teo) |-> [Fecha |-> filas_guardar[n].Fecha, Producto |-> filas_guardar[n].Producto, Ubicacion |-> filas_guardar[n].Ubicacion, Turno |-> turno, Stock_Fisico |-> filas_guardar[n].Stock_Fisico]]
        df_stockfis == concat(w.mem.StockFisico, DataFrame(hojas_y_columnas.StockFisico, filas_fisico))
        w1 == exportar_a_google_sheets([w EXCEPT !.mem.StockFisico = df_stockfis], "StockFisico", df_stockfis)
        df_aud_diaria == concat(w1.mem.Auditoria_Diaria, DataFrame(hojas_y_columnas.Auditoria_Diaria, filas_guardar))
        w2 == exportar_a_google_sheets([w1 EXCEPT !.mem.Auditoria_Diaria = df_aud_diaria], "Auditoria_Diaria", df_aud_diaria)
    IN  IF teo = <<>> THEN w ELSE SeccionSemanal(w2, d)

\* ------------------------------------------------------------------------
\* State, events and the actions
\* ------------------------------------------------------------------------
\* ev records the last interaction: which one, by which session, how it
\* ended, the sheets it tried to write and, when it was accepted, its inputs;
\* for a look at the stock tables, the status shown for each row.
EvBase == [op |-> "Init", sesion |-> "", res |-> "", producto |-> "", cantidad |-> 0, origen |-> "", destino |-> "", fecha |-> 0, turno |-> "", fisico |-> <<>>, tecleado |-> <<>>, red |-> <<>>, escrituras |-> <<>>, estados |-> <<>>]

\* The operation logs grow with the ledger and share its bound.
Registros == {"Entradas", "Salidas", "Transferencias", "Devoluciones", "Consumos", "StockFisico"}

AcotadoHasta(n, mem) ==
    /\ Len(mem.Inventario.filas) <= n
    /\ \A h \in Registros : Len(mem[h].filas) <= MaxInventario
    /\ Len(mem.Auditoria_Diaria.filas) <= MaxAuditorias
    /\ Len(mem.Auditoria_Semanal.filas) <= MaxSemanal
    /\ Len(mem.Catalogo.filas) <= MaxCatalogo
    /\ Len(mem.Recetas.filas) <= MaxRecetas

Acotado(mem) == AcotadoHasta(MaxInventario, mem)

\* The outcome of one script run becomes the next state, as long as the
\* ledger keeps to n rows.
CommitHasta(n, s, w, e) ==
    /\ AcotadoHasta(n, w.mem)
    /\ session_state' = [session_state EXCEPT ![s] = w.mem]
    /\ sheets' = w.sheets
    /\ ev' = [e EXCEPT !.sesion = s, !.red = w.red0, !.escrituras = w.escrituras]
    /\ UNCHANGED hoy

Commit(s, w, e) == CommitHasta(MaxInventario, s, w, e)

Entorno(s, red) == Mundo(session_state[s], sheets, red)

\* A form of tab `modulo` can be submitted: the session is logged in and its
\* last run drew that tab.
Visible(s, modulo) == session_state[s].iniciada /\ session_state[s].usuario # "" /\ modulo \in tab_dict(session_state[s])

\* First script run of a session: the tables are loaded, then the sidebar
\* stops the run at the empty password.
IniciarSesion(s, red) ==
    /\ ~session_state[s].iniciada
    /\ LET w == CargaInicial(Entorno(s, red), 1)
       IN  Commit(s, [w EXCEPT !.mem.iniciada = TRUE], [EvBase EXCEPT !.op = "IniciarSesion", !.res = "ok"])

\* A run with the user and password entered and no form submitted.
Login(s, red, usuario) ==
    /\ session_state[s].iniciada
    /\ usuario \in DOMAIN USUARIOS
    /\ LET w == ScriptSinEnvio(Sidebar(Entorno(s, red), usuario), hoy)
       IN  Commit(s, w, [EvBase EXCEPT !.op = "Login", !.res = "ok"])

ActualizarDatos(s, red) ==
    /\ session_state[s].iniciada /\ session_state[s].usuario # ""
    /\ Commit(s, actualizar_datos(Entorno(s, red), hoy), [EvBase EXCEPT !.op = "ActualizarDatos", !.res = "ok"])

EntradaHasta(n, s, red, producto, cantidad, ubicacion, fecha) ==
    /\ Visible(s, "entradas")
    /\ usuario_con_acceso(session_state[s], {"almacenista", "admin"})
    /\ ~empty(session_state[s].Catalogo)
    /\ selectbox(producto, unique(session_state[s].Catalogo, "Nombre"))
    /\ number_input(cantidad, MIN_CANTIDAD)
    /\ selectbox(ubicacion, Ubic)
    /\ CommitHasta(n, s, form_entrada(Entorno(s, red), hoy, producto, cantidad, ubicacion, fecha), [EvBase EXCEPT !.op = "Entrada", !.res = "ok", !.producto = producto, !.cantidad = cantidad, !.destino = ubicacion, !.fecha = fecha])

Entrada(s, red, producto, cantidad, ubicacion, fecha) == EntradaHasta(MaxInventario, s, red, producto, cantidad, ubicacion, fecha)

TransferenciaHasta(n, s, red, producto, cantidad, origen, destino, fecha) ==
    /\ Visible(s, "transferencias")
    /\ usuario_con_acceso(session_state[s], {"almacenista", "admin"})
    /\ ~empty(session_state[s].Catalogo)
    /\ selectbox(producto, unique(session_state[s].Catalogo, "Nombre"))
    /\ number_input(cantidad, MIN_CANTIDAD)
    /\ selectbox(origen, Ubic)
    /\ selectbox(destino, Ubic)
    /\ CommitHasta(n, s, form_transferencia(Entorno(s, red), hoy, producto, cantidad, origen, destino, fecha), IF origen = destino THEN [EvBase EXCEPT !.op = "Transferencia", !.res = "rechazada"] ELSE [EvBase EXCEPT !.op = "Transferencia", !.res = "ok", !.producto = producto, !.cantidad = cantidad, !.origen = origen, !.destino = destino, !.fecha = fecha])

Transferencia(s, red, producto, cantidad, origen, destino, fecha) == TransferenciaHasta(MaxInventario, s, red, producto, cantidad, origen, destino, fecha)

Devolucion(s, red, producto, cantidad, origen, destino, fecha) ==
    /\ Visible(s, "devoluciones")
    /\ usuario_con_acceso(session_state[s], {"bartender", "almacenista", "admin"})
    /\ ~empty(session_state[s].Catalogo)
    /\ selectbox(producto, unique(session_state[s].Catalogo, "Nombre"))
    /\ number_input(cantidad, MIN_CANTIDAD)
    /\ selectbox(origen, Ubic \cup {EXTERNO})
    /\ selectbox(destino, Ubic)
    /\ Commit(s, form_devolucion(Entorno(s, red), hoy, producto, cantidad, origen, destino, fecha, ""), [EvBase EXCEPT !.op = "Devolucion", !.res = "ok", !.producto = producto, !.cantidad = cantidad, !.origen = origen, !.destino = destino, !.fecha = fecha])

SalidaBotellaHasta(n, s, red, producto, cantidad, ubicacion, fecha) ==
    /\ Visible(s, "salidas")
    /\ session_state[s].rol \in {"bartender", "almacenista", "admin"}
    /\ ~empty(session_state[s].Catalogo)
    /\ selectbox(producto, unique(session_state[s].Catalogo, "Nombre"))
    /\ number_input(cantidad, MIN_CANTIDAD)
    /\ selectbox(ubicacion, Ubic)
    /\ CommitHasta(n, s, form_salida_botellas(Entorno(s, red), hoy, producto, cantidad, ubicacion, fecha), [EvBase EXCEPT !.op = "SalidaBotella", !.res = "ok", !.producto = producto, !.cantidad = cantidad, !.origen = ubicacion, !.fecha = fecha])

SalidaBotella(s, red, producto, cantidad, ubicacion, fecha) == SalidaBotellaHasta(MaxInventario, s, red, producto, cantidad, ubicacion, fecha)

SalidaTrago(s, red, trago, cantidad_tragos, ubicacion, fecha) ==
    /\ Visible(s, "salidas")
    /\ session_state[s].rol \in {"bartender", "almacenista", "admin"}
    /\ ~empty(session_state[s].Recetas)
    /\ selectbox(trago, unique(session_state[s].Recetas, "Trago"))
    /\ number_input(cantidad_tragos, MIN_TRAGOS)
    /\ selectbox(ubicacion, Ubic)
    /\ Commit(s, form_salida_tragos(Entorno(s, red), hoy, trago, cantidad_tragos, ubicacion, fecha), [EvBase EXCEPT !.op = "SalidaTrago", !.res = "ok", !.producto = trago, !.cantidad = cantidad_tragos, !.origen = ubicacion, !.fecha = fecha])

\* The Tragos column with an empty recipe book: a warning and no form.
SalidaTragoSinRecetas(s, red, trago) ==
    /\ Visible(s, "salidas")
    /\ empty(session_state[s].Recetas)
    /\ Commit(s, ScriptSinEnvio(Entorno(s, red), hoy), [EvBase EXCEPT !.op = "SalidaTrago", !.res = "sin recetas", !.producto = trago])

AgregarCatalogo(s, red, nombre, stock_minimo) ==
    /\ Visible(s, "catalogo")
    /\ session_state[s].rol \in {"admin", "almacenista"}
    /\ number_input(stock_minimo, 0)
    /\ Commit(s, form_catalogo(Entorno(s, red), hoy, nombre, "Botella", 750, stock_minimo), [EvBase EXCEPT !.op = "AgregarCatalogo", !.res = IF nombre = "" THEN "rechazada" ELSE "ok", !.producto = nombre])

\* The ingredient selectbox offers the catalog's names; with an empty
\* catalog it has no option and returns None.
OpcionesIngrediente(mem) == IF mem.Catalogo.filas = <<>> THEN {NONE} ELSE unique(mem.Catalogo, "Nombre")

RegistrarReceta(s, red, nombre_trago, ingrediente, ml) ==
    /\ Visible(s, "recetas")
    /\ session_state[s].rol \in {"admin", "almacenista"}
    /\ selectbox(ingrediente, OpcionesIngrediente(session_state[s]))
    /\ number_input(ml, 1)
    /\ Commit(s, form_receta(Entorno(s, red), hoy, nombre_trago, <<[Trago |-> nombre_trago, Ingrediente |-> ingrediente, Cantidad_ml |-> ml]>>), [EvBase EXCEPT !.op = "RegistrarReceta", !.res = IF nombre_trago = "" THEN "rechazada" ELSE "ok", !.producto = nombre_trago])

GuardarAuditoria(s, red, fecha_audit, turno, ubicacion_sel, tecleado) ==
    /\ Visible(s, "auditoria_diaria")
    /\ ~empty(session_state[s].Inventario)
    /\ calcular_stock(session_state[s].Inventario) # <<>>
    /\ session_state[s].rol \in {"almacenista", "admin"}
    /\ selectbox(turno, {"Apertura", "Cierre"})
    /\ selectbox(ubicacion_sel, {"Todas"} \cup Ubic)
    /\ Len(tecleado) = Len(df_teo(session_state[s], ubicacion_sel))
    /\ LET fisico == [n \in 1..Len(tecleado) |-> aud_fisico(tecleado[n])]
       IN  Commit(s, guardar_auditoria(Entorno(s, red), hoy, fecha_audit, turno, ubicacion_sel, fisico), [EvBase EXCEPT !.op = "GuardarAuditoria", !.res = IF fisico = <<>> THEN "error" ELSE "ok", !.origen = ubicacion_sel, !.fecha = fecha_audit, !.turno = turno, !.fisico = fisico, !.tecleado = tecleado])

\* ------------------------------------------------------------------------
\* Initial states and inputs
\* ------------------------------------------------------------------------
\* Thursday of the second week.
HOY == 1 * 7 + 3

\* A spreadsheet that does not have any of the worksheets yet.
LibroNuevo == [h \in Rango(Hojas) |-> DataFrameVacio]

\* A spreadsheet earlier sessions left with two products and one recipe.
LibroConCatalogo == [h \in Rango(Hojas) |->
    CASE h = "Catalogo" -> DataFrame(hojas_y_columnas.Catalogo, <<[Nombre |-> "Ron", Tipo |-> "Botella", ML |-> 750, StockMin |-> 0], [Nombre |-> "Soda", Tipo |-> "Ingrediente", ML |-> 1000, StockMin |-> 0]>>)
      [] h = "Recetas" -> DataFrame(hojas_y_columnas.Recetas, <<[Trago |-> "CubaLibre", Ingrediente |-> "Ron", Cantidad_ml |-> 50], [Trago |-> "CubaLibre", Ingrediente |-> "Soda", Cantidad_ml |-> 100]>>)
      [] OTHER -> DataFrame(hojas_y_columnas[h], <<>>)]

\* The same spreadsheet after ten bottles of Ron were entered into Almacen
\* last week: the row in Inventario and its record in Entradas, as text.
EXISTENCIA == 10 * UNIDAD

AsientoPrevio == [Fecha |-> [t |-> "str", d |-> HOY - 7], Tipo |-> "Entrada", Producto |-> "Ron", Cantidad |-> EXISTENCIA, Ubicacion |-> "Almacen", Usuario |-> "gerente"]

LibroConStock == [LibroConCatalogo EXCEPT !.Inventario = DataFrame(hojas_y_columnas.Inventario, <<AsientoPrevio>>), !.Entradas = DataFrame(hojas_y_columnas.Entradas \o <<"Tipo">>, <<AsientoPrevio>>)]

Sesiones == {"A", "B"}

InitCon(libros) ==
    /\ session_state = [s \in Sesiones |-> SesionNueva]
    /\ sheets \in libros
    /\ hoy = HOY
    /\ ev = EvBase

\* What the operator types into the quantity inputs (thousandths): two
\* values the widgets refuse and half a unit.
CantidadesTecleadas == {-UNIDAD, 0, UNIDAD \div 2}

TragosTecleados == {0, 1, 2}

TragosNombrados == {"", "CubaLibre"}

ProductosElegibles == {"Ron", "Soda"}

OrigenesElegibles == Ubic \cup {EXTERNO}

SinFallos == <<>>

\* Outcomes of the Sheets calls of a run that writes: all succeed, the first
\* export fails before the sheet is cleared, or it is cut after one row.
FallosEscritura == {SinFallos, <<[r |-> "antes", k |-> 0]>>, <<[r |-> "corte", k |-> 1]>>}

\* Outcomes of the reads of a refresh: all succeed, or the second one (the
\* Inventario sheet) raises.
FallosLectura == {SinFallos, <<RedOk, [r |-> "error", k |-> 0]>>}

\* The dates chosen in "Fecha de auditoria": a day of last week and today.
FechasAuditoria == {HOY - 7, HOY}

\* What the operator does with a physical-count input: leaves it alone or
\* types eight units.
ConteosTecleados == {<<>>, <<8 * UNIDAD>>}

Conteos == UNION {[1..n -> ConteosTecleados] : n \in 0..MaxAuditorias}

\* ------------------------------------------------------------------------
\* Spec: one session of the manager over a spreadsheet that has a catalog,
\* a recipe and one earlier entry, recording movements.
\* ------------------------------------------------------------------------
Init == InitCon({LibroConStock})

Next ==
    \/ IniciarSesion("A", SinFallos)
    \/ Login("A", SinFallos, "gerente")
    \/ \E p \in ProductosElegibles, q \in CantidadesTecleadas, l \in Ubic : Entrada("A", SinFallos, p, q, l, hoy)
    \/ \E p \in ProductosElegibles, q \in CantidadesTecleadas, o \in Ubic, d \in Ubic : Transferencia("A", SinFallos, p, q, o, d, hoy)
    \/ \E p \in ProductosElegibles, q \in CantidadesTecleadas, o \in OrigenesElegibles, d \in Ubic : Devolucion("A", SinFallos, p, q, o, d, hoy)
    \/ \E p \in ProductosElegibles, q \in CantidadesTecleadas, l \in Ubic : SalidaBotella("A", SinFallos, p, q, l, hoy)
    \/ \E t \in TragosNombrados, n \in TragosTecleados, l \in Ubic : SalidaTrago("A", SinFallos, t, n, l, hoy)

Spec == Init /\ [][Next]_vars

\* ------------------------------------------------------------------------
\* Reading the tables in the properties
\* ------------------------------------------------------------------------
EsPrefijo(a, b) == Len(a) <= Len(b) /\ SubSeq(b, 1, Len(a)) = a

Nuevos(a, b) == SubSeq(b, Len(a) + 1, Len(b))

\* Every product name a ledger row can carry.
ProductosLibro == Rango(Nombres) \cup {NONE}

\* The sum of Cantidad over the rows of a pair, taken over the set of their
\* positions: the reference calcular_stock is compared with.
RECURSIVE SumaIndices(_, _)
SumaIndices(filas, I) ==
    IF I = {} THEN 0
    ELSE LET i == CHOOSE j \in I : TRUE
         IN  filas[i].Cantidad + SumaIndices(filas, I \ {i})

IndicesDe(filas, p, l) == {i \in 1..Len(filas) : filas[i].Producto = p /\ filas[i].Ubicacion = l}

Sigma(filas, p, l) == SumaIndices(filas, IndicesDe(filas, p, l))

\* What calcular_stock reports for a pair: its row's Stock, 0 without a row.
stock(inventario, p, l) ==
    LET r == SelectSeq(calcular_stock(inventario), LAMBDA f : f.Producto = p /\ f.Ubicacion = l)
    IN  IF r = <<>> THEN 0 ELSE r[1].Stock

RECURSIVE SumaStock(_)
SumaStock(t) == IF t = <<>> THEN 0 ELSE Head(t).Stock + SumaStock(Tail(t))

\* Stock of a product summed over every location calcular_stock lists.
stock_total(inventario, p) == SumaStock(SelectSeq(calcular_stock(inventario), LAMBDA f : f.Producto = p))

Abs(n) == IF n < 0 THEN -n ELSE n

Es(f, tipo, producto, cantidad, ubicacion) == f.Tipo = tipo /\ f.Producto = producto /\ f.Cantidad = cantidad /\ f.Ubicacion = ubicacion

OtrosIguales(antes, despues, tocados) == \A p \in ProductosLibro, l \in Ubic : <<p, l>> \notin tocados => stock(despues, p, l) = stock(antes, p, l)

\* ------------------------------------------------------------------------
\* Properties of the recorders, checked under Spec
\* ------------------------------------------------------------------------
\* C3: every accepted Transfer of q of p from o to d (o # d) appends exactly
\* two ledger entries, -q at o then +q at d; stock(p,o) falls by q,
\* stock(p,d) rises by q, the total of p over all locations is the same
\* before and after, and the stock of every other product is unchanged.
C3_TransferenciaConserva ==
    [][(ev'.op = "Transferencia" /\ ev'.res = "ok") =>
        LET antes == session_state[ev'.sesion].Inventario
            despues == session_state'[ev'.sesion].Inventario
            n == Nuevos(antes.filas, despues.filas)
            p == ev'.producto
            q == ev'.cantidad
            o == ev'.origen
            d == ev'.destino
        IN  /\ o # d
            /\ EsPrefijo(antes.filas, despues.filas)
            /\ Len(n) = 2
            /\ Es(n[1], "Transferencia", p, -q, o)
            /\ Es(n[2], "Transferencia", p, q, d)
            /\ stock(despues, p, o) = stock(antes, p, o) - q
            /\ stock(despues, p, d) = stock(antes, p, d) + q
            /\ stock_total(despues, p) = stock_total(antes, p)
            /\ \A p2 \in ProductosLibro \ {p}, l \in Ubic : stock(despues, p2, l) = stock(antes, p2, l)]_vars

\* A transfer out of the location that holds the earlier stock was recorded.
C3_Witness == ev.op = "Transferencia" /\ ev.res = "ok" /\ ev.producto = "Ron" /\ ev.origen = "Almacen" /\ ev.destino = "Bar" /\ stock(session_state["A"].Inventario, "Ron", "Almacen") = EXISTENCIA - ev.cantidad /\ stock(session_state["A"].Inventario, "Ron", "Bar") = ev.cantidad

C5_SalidaTrago ==
    [][(ev'.op = "SalidaTrago" /\ ev'.res = "ok") =>
        LET m == session_state[ev'.sesion]
            m2 == session_state'[ev'.sesion]
            lineas == SelectSeq(m.Recetas.filas, LAMBDA r : r.Trago = ev'.producto)
            n == Nuevos(m.Inventario.filas, m2.Inventario.filas)
            c == Nuevos(m.Consumos.filas, m2.Consumos.filas)
        IN  /\ EsPrefijo(m.Inventario.filas, m2.Inventario.filas)
            /\ EsPrefijo(m.Consumos.filas, m2.Consumos.filas)
            /\ Len(n) = Len(lineas)
            /\ Len(c) = Len(lineas)
            /\ \A i \in 1..Len(lineas) :
                /\ n[i].Tipo = "Salida Trago" /\ n[i].Producto = lineas[i].Ingrediente /\ n[i].Ubicacion = ev'.origen
                /\ n[i].Cantidad * 1000 = -(lineas[i].Cantidad_ml * ev'.cantidad * UNIDAD)
                /\ c[i].Trago = ev'.producto /\ c[i].Ingrediente = lineas[i].Ingrediente /\ c[i].Ubicacion = ev'.origen
                /\ c[i].Cantidad_Usada * 1000 = lineas[i].Cantidad_ml * ev'.cantidad * UNIDAD]_vars

\* Two servings of the two-line recipe were recorded.
C5_Witness == ev.op = "SalidaTrago" /\ ev.res = "ok" /\ ev.cantidad = 2 /\ Len(session_state["A"].Consumos.filas) = 2 /\ session_state["A"].Inventario.filas[2].Cantidad = -100 /\ session_state["A"].Consumos.filas[2].Cantidad_Usada = 200

\* C6: an Entry of q > 0 of p at l appends exactly one ledger entry
\* ('Entrada', p, +q, l) and one record to the Entradas log; stock(p,l)
\* rises by exactly q and every other pair keeps its stock.
C6_Entrada ==
    [][(ev'.op = "Entrada" /\ ev'.res = "ok") =>
        LET m == session_state[ev'.sesion]
            m2 == session_state'[ev'.sesion]
            n == Nuevos(m.Inventario.filas, m2.Inventario.filas)
            e == Nuevos(m.Entradas.filas, m2.Entradas.filas)
            p == ev'.producto
            q == ev'.cantidad
            l == ev'.destino
        IN  /\ q > 0
            /\ EsPrefijo(m.Inventario.filas, m2.Inventario.filas)
            /\ EsPrefijo(m.Entradas.filas, m2.Entradas.filas)
            /\ Len(n) = 1 /\ Es(n[1], "Entrada", p, q, l)
            /\ Len(e) = 1 /\ e[1].Producto = p /\ e[1].Cantidad = q /\ e[1].Ubicacion = l
            /\ stock(m2.Inventario, p, l) = stock(m.Inventario, p, l) + q
            /\ OtrosIguales(m.Inventario, m2.Inventario, {<<p, l>>})]_vars

\* Half a bottle was entered where ten bottles already were.
C6_Witness == ev.op = "Entrada" /\ ev.res = "ok" /\ ev.producto = "Ron" /\ ev.destino = "Almacen" /\ ev.cantidad = UNIDAD \div 2 /\ stock(session_state["A"].Inventario, "Ron", "Almacen") = EXISTENCIA + (UNIDAD \div 2)

\* C7: an Exit-Bottle of q > 0 of p at l appends exactly one ledger entry
\* ('Salida Botella', p, -q, l) and one record to the Salidas log;
\* stock(p,l) falls by exactly q and every other pair keeps its stock.
C7_SalidaBotella ==
    [][(ev'.op = "SalidaBotella" /\ ev'.res = "ok") =>
        LET m == session_state[ev'.sesion]
            m2 == session_state'[ev'.sesion]
            n == Nuevos(m.Inventario.filas, m2.Inventario.filas)
            r == Nuevos(m.Salidas.filas, m2.Salidas.filas)
            p == ev'.producto
            q == ev'.cantidad
            l == ev'.origen
        IN  /\ q > 0
            /\ EsPrefijo(m.Inventario.filas, m2.Inventario.filas)
            /\ EsPrefijo(m.Salidas.filas, m2.Salidas.filas)
            /\ Len(n) = 1 /\ Es(n[1], "Salida Botella", p, -q, l)
            /\ Len(r) = 1 /\ r[1].ProductoTrago = p /\ r[1].Ubicacion = l /\ r[1].Tipo = "Salida Botella"
            /\ stock(m2.Inventario, p, l) = stock(m.Inventario, p, l) - q
            /\ OtrosIguales(m.Inventario, m2.Inventario, {<<p, l>>})]_vars

\* A bottle left the location that held the earlier stock.
C7_Witness == ev.op = "SalidaBotella" /\ ev.res = "ok" /\ ev.producto = "Ron" /\ ev.origen = "Almacen" /\ ev.cantidad = UNIDAD \div 2 /\ stock(session_state["A"].Inventario, "Ron", "Almacen") = EXISTENCIA - (UNIDAD \div 2)

Registradores == {"Entrada", "Transferencia", "Devolucion", "SalidaBotella", "SalidaTrago"}

TiposBotella == {"Entrada", "Salida Botella", "Transferencia", "Devolucion"}

\* C9: no recorder accepts a quantity <= 0 (servings < 1): an accepted
\* recorder run has a positive quantity, a run that is not an accepted
\* recorder run (or a table load) appends nothing to the ledger, and every
\* Entry / Exit-Bottle / Transfer / Return entry of the ledger is non-zero
\* with the magnitude of a positive submitted quantity.
C9_CantidadPositiva ==
    [][\A s \in Sesiones :
        LET antes == session_state[s].Inventario.filas
            despues == session_state'[s].Inventario.filas
            n == Nuevos(antes, despues)
        IN  /\ (ev'.op \in Registradores /\ ev'.res = "ok") => ev'.cantidad > 0
            /\ (ev'.op \in Registradores /\ ev'.res # "ok") => despues = antes
            /\ (ev'.op \in Registradores /\ ev'.sesion = s) => \A i \in 1..Len(n) : n[i].Tipo \in TiposBotella => Abs(n[i].Cantidad) = ev'.cantidad
            /\ \A i \in 1..Len(despues) : despues[i].Tipo \in TiposBotella => despues[i].Cantidad # 0 /\ Abs(despues[i].Cantidad) \in {q \in CantidadesTecleadas \cup {EXISTENCIA} : q > 0}]_vars

\* The smallest quantity typed that a recorder accepted is in the ledger.
C9_Witness == ev.op = "Devolucion" /\ ev.res = "ok" /\ ev.cantidad = UNIDAD \div 2 /\ Len(session_state["A"].Inventario.filas) = 3 /\ session_state["A"].Inventario.filas[2].Cantidad = -(UNIDAD \div 2)

\* ------------------------------------------------------------------------
\* SpecCatalogo: the manager starts from a spreadsheet without worksheets,
\* fills the catalog, writes recipes and records entries and drinks.
\* ------------------------------------------------------------------------
InitCatalogo == InitCon({LibroNuevo})

\* The drinks the operator wants to record: one the recipe form can hold
\* and one that never gets a recipe.
TragosPedidos == {"Shot", "Mojito"}

NextCatalogo ==
    \/ IniciarSesion("A", SinFallos)
    \/ Login("A", SinFallos, "gerente")
    \/ \E n \in {"", "Ron"} : AgregarCatalogo("A", SinFallos, n, 0)
    \/ \E t \in {"", "Shot"}, i \in {NONE, "Ron"}, ml \in {0, 50} : RegistrarReceta("A", SinFallos, t, i, ml)
    \/ \E q \in {0, UNIDAD} : Entrada("A", SinFallos, "Ron", q, "Bar", hoy)
    \/ \E t \in TragosPedidos, n \in {0, 1}, l \in {"Almacen", "Bar"} : SalidaTrago("A", SinFallos, t, n, l, hoy)
    \/ \E t \in TragosPedidos : SalidaTragoSinRecetas("A", SinFallos, t)

SpecCatalogo == InitCatalogo /\ [][NextCatalogo]_vars

\* C1: after any sequence of recorder operations calcular_stock has exactly
\* one row for every (product, location) pair with at least one in-memory
\* Inventario entry, its Stock is the sum of Cantidad over the entries of the
\* pair, and a pair without entries has no row.
C1_StockEsSuma ==
    \A s \in Sesiones :
        LET inventario == session_state[s].Inventario
            t == calcular_stock(inventario)
        IN  \A p \in ProductosLibro, l \in Ubic :
                LET filas_par == {n \in 1..Len(t) : t[n].Producto = p /\ t[n].Ubicacion = l}
                IN  IF IndicesDe(inventario.filas, p, l) # {}
                    THEN Cardinality(filas_par) = 1 /\ \A n \in filas_par : t[n].Stock = Sigma(inventario.filas, p, l)
                    ELSE filas_par = {}

\* ------------------------------------------------------------------------
\* SpecFallos: the manager records entries and exits and refreshes, with
\* Sheets calls that may fail.
\* ------------------------------------------------------------------------
NextFallos ==
    \/ IniciarSesion("A", SinFallos)
    \/ Login("A", SinFallos, "gerente")
    \/ \E red \in FallosEscritura, l \in {"Almacen", "Bar"} : Entrada("A", red, "Ron", UNIDAD, l, hoy)
    \/ \E red \in FallosEscritura : SalidaBotella("A", red, "Ron", UNIDAD, "Almacen", hoy)
    \/ \E red \in FallosLectura : ActualizarDatos("A", red)

SpecFallos == Init /\ [][NextFallos]_vars

Textos(filas) == [i \in 1..Len(filas) |-> fila_a_texto(filas[i])]

\* C2: the ledger is append-only across every operation, the refresh and
\* operations whose write fails included: the in-memory ledger before a step
\* is a prefix of the ledger after it (dates compared as their text, which
\* is how a reload returns them).
C2_LibroSoloCrece ==
    [][\A s \in Sesiones : EsPrefijo(Textos(session_state[s].Inventario.filas), Textos(session_state'[s].Inventario.filas))]_vars

\* ------------------------------------------------------------------------
\* SpecAuditoria: the manager records entries and transfers and saves
\* daily audits.
\* ------------------------------------------------------------------------
NextAuditoria ==
    \/ IniciarSesion("A", SinFallos)
    \/ Login("A", SinFallos, "gerente")
    \/ Entrada("A", SinFallos, "Ron", UNIDAD, "Bar", hoy)
    \/ \E d \in {"Almacen", "Bar"} : Transferencia("A", SinFallos, "Ron", UNIDAD, "Almacen", d, hoy)
    \/ \E f \in FechasAuditoria, u \in {"Todas", "Almacen", "Vinera"}, c \in Conteos : GuardarAuditoria("A", SinFallos, f, "Cierre", u, c)

SpecAuditoria == Init /\ [][NextAuditoria]_vars

\* C8: a Transfer whose origin equals its destination is rejected: the
\* ledger, the Transferencias log and every other table are exactly as they
\* were, and no persistence write is attempted.
C8_TransferenciaRechazada ==
    [][(ev'.op = "Transferencia" /\ ev'.res = "rechazada") =>
        /\ \A h \in Rango(Hojas) : session_state'[ev'.sesion][h] = session_state[ev'.sesion][h]
        /\ sheets' = sheets
        /\ ev'.escrituras = <<>>]_vars

\* The pairs in scope of an audit, from the ledger rows themselves.
Alcance(filas, ubicacion_sel) == SelectSeq(Claves, LAMBDA k : IndicesDe(filas, k[1], k[2]) # {} /\ (ubicacion_sel = "Todas" \/ k[2] = ubicacion_sel))

\* C10: saving a daily audit for a location filter appends exactly one
\* AuditRecord for every stock row in scope, with Stock_Teorico the
\* calcular_stock value of the ledger at save time, Stock_Fisico the count
\* entered for that row and Diferencia = Stock_Fisico - Stock_Teorico.
C10_GuardarAuditoria ==
    [][(ev'.op = "GuardarAuditoria" /\ ev'.res = "ok") =>
        LET m == session_state[ev'.sesion]
            m2 == session_state'[ev'.sesion]
            alcance == Alcance(m.Inventario.filas, ev'.origen)
            n == Nuevos(m.Auditoria_Diaria.filas, m2.Auditoria_Diaria.filas)
        IN  /\ EsPrefijo(m.Auditoria_Diaria.filas, m2.Auditoria_Diaria.filas)
            /\ m2.Inventario.filas = m.Inventario.filas
            /\ Len(n) = Len(alcance)
            /\ \A i \in 1..Len(alcance) :
                /\ n[i].Producto = alcance[i][1] /\ n[i].Ubicacion = alcance[i][2]
                /\ n[i].Fecha.d = ev'.fecha /\ n[i].Turno = ev'.turno
                /\ n[i].Stock_Teorico = stock(m.Inventario, alcance[i][1], alcance[i][2])
                /\ n[i].Stock_Teorico = Sigma(m.Inventario.filas, alcance[i][1], alcance[i][2])
                /\ n[i].Stock_Fisico = ev'.fisico[i]
                /\ n[i].Diferencia = n[i].Stock_Fisico - n[i].Stock_Teorico]_vars

\* Ten bottles in the ledger, eight counted: the record says -2.
C10_Witness == ev.op = "GuardarAuditoria" /\ ev.res = "ok" /\ \E i \in 1..Len(session_state["A"].Auditoria_Diaria.filas) : LET f == session_state["A"].Auditoria_Diaria.filas[i] IN f.Stock_Teorico = 10 * UNIDAD /\ f.Stock_Fisico = 8 * UNIDAD /\ f.Diferencia = -(2 * UNIDAD)

\* ------------------------------------------------------------------------
\* SpecSemanal: sessions open the application on some day of one week (or
\* the Monday after it) over a spreadsheet that already holds daily audits
\* dated around the borders of the week before.
\* ------------------------------------------------------------------------
DiasDeHoy == 7..14

FechasPrevias == {-1, 0, 6, 7}

\* The differences of the audits saved earlier, in the order they were saved.
Difs == <<-(2 * UNIDAD), UNIDAD, -UNIDAD, 3 * UNIDAD>>

Turnos == <<"Cierre", "Apertura">>

AsientoEn(l) == [AsientoPrevio EXCEPT !.Fecha = [t |-> "str", d |-> -2], !.Ubicacion = l]

AuditoriaPrevia(i, f, l) == [Fecha |-> [t |-> "str", d |-> f], Producto |-> "Ron", Ubicacion |-> l, Turno |-> Turnos[((i - 1) % 2) + 1], Stock_Teorico |-> EXISTENCIA, Stock_Fisico |-> EXISTENCIA + Difs[i], Diferencia |-> Difs[i]]

AuditoriasPrevias == UNION {{[i \in 1..n |-> AuditoriaPrevia(i, c[i][1], c[i][2])] : c \in [1..n -> FechasPrevias \X {"Almacen", "Bar"}]} : n \in 1..MaxAuditorias}

LibroConAuditorias(a) == [LibroConCatalogo EXCEPT !.Inventario = DataFrame(hojas_y_columnas.Inventario, <<AsientoEn("Almacen"), AsientoEn("Bar")>>), !.Entradas = DataFrame(hojas_y_columnas.Entradas \o <<"Tipo">>, <<AsientoEn("Almacen"), AsientoEn("Bar")>>), !.StockFisico = DataFrame(hojas_y_columnas.StockFisico, [i \in 1..Len(a) |-> [Fecha |-> a[i].Fecha, Producto |-> a[i].Producto, Ubicacion |-> a[i].Ubicacion, Turno |-> a[i].Turno, Stock_Fisico |-> a[i].Stock_Fisico]]), !.Auditoria_Diaria = DataFrame(hojas_y_columnas.Auditoria_Diaria, a)]

InitSemanal ==
    /\ session_state = [s \in Sesiones |-> SesionNueva]
    /\ sheets \in {LibroConAuditorias(a) : a \in AuditoriasPrevias}
    /\ hoy \in DiasDeHoy
    /\ ev = EvBase

NextSemanal ==
    \/ IniciarSesion("A", SinFallos)
    \/ \E u \in {"gerente", "supervisor"} : Login("A", SinFallos, u)

SpecSemanal == InitSemanal /\ [][NextSemanal]_vars

\* The Monday of the week that contains day h, and the week before it.
LunesDe(h) == CHOOSE m \in (h - 6)..h : m % 7 = 0

SemanaAnterior(h) == (LunesDe(h) - 7)..(LunesDe(h) - 1)

RECURSIVE SumaCampo(_, _, _)
SumaCampo(filas, campo, I) ==
    IF I = {} THEN 0
    ELSE LET i == CHOOSE j \in I : TRUE
         IN  filas[i][campo] + SumaCampo(filas, campo, I \ {i})

\* The audits of a pair dated inside the week before day h.
AuditoriasDe(aud, p, l, h) == {i \in 1..Len(aud) : aud[i].Producto = p /\ aud[i].Ubicacion = l /\ aud[i].Fecha.d \in SemanaAnterior(h)}

\* C11: the weekly rollup yields, for each (product, location) pair with at
\* least one audit dated inside the previous-week window, exactly one row
\* whose Diferencia_Acumulada is the sum of Diferencia over all the pair's
\* audits in the window (both shifts, repeated audits); audits dated outside
\* the window contribute nothing.
C11_ResumenSemanal ==
    [][(ev'.op = "Login" /\ session_state'[ev'.sesion].rol \in {"admin", "almacenista"}) =>
        LET m == session_state[ev'.sesion]
            m2 == session_state'[ev'.sesion]
            aud == m2.Auditoria_Diaria.filas
            pares == SelectSeq(Claves, LAMBDA k : AuditoriasDe(aud, k[1], k[2], hoy) # {})
            n == Nuevos(m.Auditoria_Semanal.filas, m2.Auditoria_Semanal.filas)
        IN  /\ EsPrefijo(m.Auditoria_Semanal.filas, m2.Auditoria_Semanal.filas)
            /\ Len(n) = Len(pares)
            /\ \A i \in 1..Len(pares) :
                /\ n[i].Producto = pares[i][1] /\ n[i].Ubicacion = pares[i][2]
                /\ n[i].Diferencia_Acumulada = SumaCampo(aud, "Diferencia", AuditoriasDe(aud, pares[i][1], pares[i][2], hoy))]_vars

\* Two audits of one pair, one per shift, on the first and the last day of
\* the window: -2 and +1 are summed to -1.
C11_Witness ==
    LET m == session_state["A"]
    IN  /\ ev.op = "Login" /\ m.rol = "admin"
        /\ Len(m.Auditoria_Diaria.filas) = 2
        /\ \A i \in 1..2 : m.Auditoria_Diaria.filas[i].Ubicacion = "Almacen"
        /\ m.Auditoria_Diaria.filas[1].Fecha.d = 0 /\ m.Auditoria_Diaria.filas[2].Fecha.d = 6
        /\ hoy = HOY
        /\ Len(m.Auditoria_Semanal.filas) = 1
        /\ m.Auditoria_Semanal.filas[1].Diferencia_Acumulada = -UNIDAD

\* C12: for every value of today's date the rollup window is exactly the
\* seven days Monday..Sunday of the week before the one that contains today:
\* it starts on a Monday, ends the day before the current week's Monday, and
\* no day of the current week (today included) is inside it.
C12_VentanaSemanaAnterior ==
    LET a == inicio_semana_ant(hoy)
        b == fin_semana(hoy)
        lunes == LunesDe(hoy)
        dia(x) == [Fecha |-> [t |-> "date", d |-> x]]
    IN  /\ b - a = 6
        /\ a % 7 = 0
        /\ b = lunes - 1
        /\ \A x \in (hoy - 15)..(hoy + 7) : mask(dia(x), hoy) <=> x \in a..b
        /\ \A x \in lunes..(lunes + 6) : ~mask(dia(x), hoy)
        /\ ~mask(dia(hoy), hoy)

\* On a Sunday the rollup counted the audit of the Sunday before and left
\* out the audit dated on the Monday of the current week.
C12_Witness ==
    LET m == session_state["A"]
    IN  /\ hoy = 13 /\ ev.op = "Login" /\ m.rol = "admin"
        /\ Len(m.Auditoria_Diaria.filas) = 2
        /\ m.Auditoria_Diaria.filas[1].Fecha.d = 6 /\ m.Auditoria_Diaria.filas[2].Fecha.d = 7
        /\ m.Auditoria_Diaria.filas[1].Ubicacion = m.Auditoria_Diaria.filas[2].Ubicacion
        /\ Len(m.Auditoria_Semanal.filas) = 1
        /\ m.Auditoria_Semanal.filas[1].Diferencia_Acumulada = Difs[1]

\* ------------------------------------------------------------------------
\* Stock status, as the Panel and the Stock tab classify it
\* ------------------------------------------------------------------------
\* min_val_float: the "Stock Min" of the first catalog row of the product
\* (0 when it has none), in thousandths like the stock it is compared with.
min_val_float(catalogo_df, prod) ==
    LET min_vals == SelectSeq(catalogo_df.filas, LAMBDA c : c.Nombre = prod)
    IN  IF Len(min_vals) > 0 THEN min_vals[1].StockMin * UNIDAD ELSE 0

\* The if / elif chain of the Panel.
estado_panel(stock_fila, min_val_f) ==
    IF min_val_f = 0 THEN "Sin minimo"
    ELSE IF stock_fila < min_val_f THEN "Critico"
    ELSE IF stock_fila < min_val_f * 2 THEN "Bajo"
    ELSE "Suficiente"

\* Variant: a stock equal to the minimum counts as critical.
calcular_estado_inclusivo(stock_fila, minimo) ==
    IF minimo = 0 THEN "Sin minimo"
    ELSE IF stock_fila <= minimo THEN "Critico"
    ELSE IF stock_fila < minimo * 2 THEN "Bajo"
    ELSE "Suficiente"

\* calcular_estado of the Stock tab.
calcular_estado(stock_fila, minimo) ==
    IF minimo = 0 THEN "Sin minimo"
    ELSE IF stock_fila < minimo THEN "Critico"
    ELSE IF stock_fila < minimo * 2 THEN "Bajo"
    ELSE "Suficiente"

\* The status columns the two tabs show, row by row of calcular_stock.
estados_mostrados(mem) ==
    LET stock_df == calcular_stock(mem.Inventario)
    IN  [n \in 1..Len(stock_df) |-> [Producto |-> stock_df[n].Producto, Ubicacion |-> stock_df[n].Ubicacion, Stock |-> stock_df[n].Stock, Minimo |-> min_val_float(mem.Catalogo, stock_df[n].Producto), Panel |-> estado_panel(stock_df[n].Stock, min_val_float(mem.Catalogo, stock_df[n].Producto)), Estado |-> calcular_estado(stock_df[n].Stock, min_val_float(mem.Catalogo, stock_df[n].Producto))]]

\* A run in which the user looks at the Panel and at the Stock tab.
VerStock(s, red) ==
    /\ Visible(s, "panel")
    /\ Visible(s, "stock")
    /\ LET w == ScriptSinEnvio(Entorno(s, red), hoy)
       IN  Commit(s, w, [EvBase EXCEPT !.op = "VerStock", !.res = "ok", !.estados = estados_mostrados(w.mem)])

\* ------------------------------------------------------------------------
\* SpecEstado: the catalog gives Ron a minimum, the ledger starts with one
\* movement of Ron at Almacen; the users record half bottles in and out and
\* look at the stock tables.
\* ------------------------------------------------------------------------
MinimosPrevios == {0, 1, 5}

SaldosPrevios == {-UNIDAD, UNIDAD \div 2, 4 * UNIDAD + UNIDAD \div 2, 5 * UNIDAD, 8 * UNIDAD, 9 * UNIDAD + UNIDAD \div 2, 10 * UNIDAD, 12 * UNIDAD}

AsientoDe(c) == [AsientoPrevio EXCEPT !.Cantidad = c, !.Tipo = IF c < 0 THEN "Salida Botella" ELSE "Entrada"]

SalidaDe(c) == [Fecha |-> AsientoPrevio.Fecha, ProductoTrago |-> "Ron", Cantidad |-> c, Usuario |-> "gerente", Ubicacion |-> "Almacen", Tipo |-> "Salida Botella"]

LibroConSaldo(c, minimo) == [LibroConCatalogo EXCEPT !.Catalogo.filas[1].StockMin = minimo, !.Inventario = DataFrame(hojas_y_columnas.Inventario, <<AsientoDe(c)>>), !.Entradas = IF c < 0 THEN @ ELSE DataFrame(hojas_y_columnas.Entradas \o <<"Tipo">>, <<AsientoDe(c)>>), !.Salidas = IF c < 0 THEN DataFrame(hojas_y_columnas.Salidas, <<SalidaDe(c)>>) ELSE @]

InitEstado == InitCon({LibroConSaldo(c, minimo) : c \in SaldosPrevios, minimo \in MinimosPrevios})

NextEstado ==
    \/ IniciarSesion("A", SinFallos)
    \/ \E u \in {"gerente", "bar1"} : Login("A", SinFallos, u)
    \/ Entrada("A", SinFallos, "Ron", UNIDAD \div 2, "Almacen", hoy)
    \/ SalidaBotella("A", SinFallos, "Ron", UNIDAD \div 2, "Almacen", hoy)
    \/ VerStock("A", SinFallos)

SpecEstado == InitEstado /\ [][NextEstado]_vars

\* C13: for every stock and every minimum >= 0 the status is 'Sin minimo'
\* when the minimum is 0, 'Critico' when stock < minimum, 'Bajo' when
\* minimum <= stock < 2 x minimum, 'Suficiente' otherwise, and the Panel and
\* calcular_estado of the Stock tab give the same status.
C13_Estado ==
    \A n \in 1..Len(ev.estados) :
        LET e == ev.estados[n]
        IN  /\ e.Minimo >= 0
            /\ e.Minimo = 0 => e.Estado = "Sin minimo"
            /\ (e.Minimo > 0 /\ e.Stock < e.Minimo) => e.Estado = "Critico"
            /\ (e.Minimo > 0 /\ e.Minimo <= e.Stock /\ e.Stock < 2 * e.Minimo) => e.Estado = "Bajo"
            /\ (e.Minimo > 0 /\ e.Stock >= 2 * e.Minimo) => e.Estado = "Suficiente"
            /\ e.Panel = e.Estado

\* Minimum 5 with stock 8 was shown as 'Bajo' by both tabs.
C13_Witness == ev.op = "VerStock" /\ \E n \in 1..Len(ev.estados) : ev.estados[n].Minimo = 5 * UNIDAD /\ ev.estados[n].Stock = 8 * UNIDAD /\ ev.estados[n].Estado = "Bajo" /\ ev.estados[n].Panel = "Bajo"

\* ------------------------------------------------------------------------
\* The Cantidad column is float64. A double is written here as the exact
\* integer N of its value N * 2^-56, kept in two limbs <<hi, lo>> with
\* N = hi * 2^28 + lo and 0 <= lo < 2^28 (hi < 0 for a negative value).
\* Every double met below is a multiple of 2^-56 smaller than 8 in
\* magnitude, so the encoding is exact; the additions round to 53
\* significant bits, ties to even, as the hardware does.
\* ------------------------------------------------------------------------
LIMBO == 268435456

\* The double nearest to a quantity typed as c thousandths.
float64(c) ==
    CASE c = 0 -> <<0, 0>>
      [] c = 100 -> <<26843545, 161061274>>
      [] c = 500 -> <<134217728, 0>>
      [] c = 1000 -> <<268435456, 0>>

f64_neg(a) == IF a[2] = 0 THEN <<0 - a[1], 0>> ELSE <<0 - a[1] - 1, LIMBO - a[2]>>

\* Number of bits to drop so that 53 significant bits remain.
f64_exceso(hi) ==
    CASE hi < 33554432 -> 0
      [] hi >= 33554432 /\ hi < 67108864 -> 1
      [] hi >= 67108864 /\ hi < 134217728 -> 2
      [] hi >= 134217728 /\ hi < 268435456 -> 3
      [] hi >= 268435456 /\ hi < 536870912 -> 4
      [] hi >= 536870912 /\ hi < 1073741824 -> 5
      [] OTHER -> 6

\* Round a non-negative exact value to nearest, ties to even.
f64_redondear_mag(a) ==
    LET q == 2 ^ f64_exceso(a[1])
        r == a[2] % q
        abajo == a[2] - r
        sube == 2 * r > q \/ (2 * r = q /\ (a[2] \div q) % 2 = 1)
        lo == IF sube THEN abajo + q ELSE abajo
    IN  IF lo = LIMBO THEN <<a[1] + 1, 0>> ELSE <<a[1], lo>>

f64_redondear(a) == IF a[1] < 0 THEN f64_neg(f64_redondear_mag(f64_neg(a))) ELSE f64_redondear_mag(a)

\* a + b of two doubles.
f64_add(a, b) == f64_redondear(<<a[1] + b[1] + (a[2] + b[2]) \div LIMBO, (a[2] + b[2]) % LIMBO>>)

\* a - b of two doubles.
f64_sub(a, b) == f64_add(a, f64_neg(b))

\* sum() of a float64 column, row after row.
RECURSIVE sum_acumulada(_, _)
sum_acumulada(xs, sumx) == IF xs = <<>> THEN sumx ELSE sum_acumulada(Tail(xs), f64_add(sumx, Head(xs)))

\* sum() of a float64 column with the compensation term of the grouped sum.
RECURSIVE sum_compensada(_, _, _)
sum_compensada(xs, sumx, compensation) ==
    IF xs = <<>> THEN sumx
    ELSE LET y == f64_sub(Head(xs), compensation)
             t == f64_add(sumx, y)
         IN  sum_compensada(Tail(xs), t, f64_sub(f64_sub(t, sumx), y))

\* The two summations a pandas build can use for groupby(...).sum().
Sumas == {"acumulada", "compensada"}

sum_float64(suma, xs) == IF suma = "acumulada" THEN sum_acumulada(xs, float64(0)) ELSE sum_compensada(xs, float64(0), float64(0))

\* The Cantidad values of one group, in ledger order.
cantidades_grupo(filas, k) ==
    LET g == SelectSeq(filas, LAMBDA f : f.Producto = k[1] /\ f.Ubicacion = k[2])
    IN  [i \in 1..Len(g) |-> float64(g[i].Cantidad)]

\* calcular_stock with the float64 arithmetic of the Cantidad column.
calcular_stock_float64(inventario, suma) ==
    IF empty(inventario) THEN <<>>
    ELSE LET presentes == SelectSeq(Claves, LAMBDA k : EnGrupo(inventario.filas, k))
         IN  [n \in 1..Len(presentes) |-> [Producto |-> presentes[n][1], Ubicacion |-> presentes[n][2], Stock |-> sum_float64(suma, cantidades_grupo(inventario.filas, presentes[n]))]]

\* ------------------------------------------------------------------------
\* SpecOrden: from a book with a catalog and an empty ledger the manager
\* records entries of 0.1 and of 1 bottle of Ron and looks at the stock.
\* ------------------------------------------------------------------------
CantidadesOrden == {MIN_CANTIDAD, UNIDAD}

InitOrden == InitCon({LibroConCatalogo})

NextOrden ==
    \/ IniciarSesion("A", SinFallos)
    \/ Login("A", SinFallos, "gerente")
    \/ \E c \in CantidadesOrden, l \in {"Almacen", "Bar"} : Entrada("A", SinFallos, "Ron", c, l, hoy)
    \/ VerStock("A", SinFallos)

SpecOrden == InitOrden /\ [][NextOrden]_vars

Permutaciones(n) == {f \in [1..n -> 1..n] : \A i, j \in 1..n : f[i] = f[j] => i = j}

Permutado(inventario, f) == [inventario EXCEPT !.filas = [i \in 1..Len(inventario.filas) |-> inventario.filas[f[i]]]]

\* C14: the stock table depends only on the multiset of ledger entries:
\* whichever summation the build uses, calcular_stock gives the same
\* (product, location, stock) rows for the ledger and for every permutation
\* of its rows, and gives the same table when called twice on the ledger.
C14_OrdenIndiferente ==
    LET inventario == session_state["A"].Inventario
    IN  \E suma \in Sumas :
            /\ calcular_stock_float64(inventario, suma) = calcular_stock_float64(inventario, suma)
            /\ \A f \in Permutaciones(Len(inventario.filas)) :
                   calcular_stock_float64(Permutado(inventario, f), suma) = calcular_stock_float64(inventario, suma)

\* ------------------------------------------------------------------------
\* SpecEscenario: from a book with a catalog and an empty ledger the manager
\* records entries at Almacen, transfers from Almacen to Bar and bottle
\* exits at Bar, in any order, up to MaxEscenario ledger rows.
\* ------------------------------------------------------------------------
MaxEscenario == 4

EntradasEscenario == {12 * UNIDAD, 5 * UNIDAD}

TransferenciasEscenario == {5 * UNIDAD, 7 * UNIDAD}

SalidasEscenario == {2 * UNIDAD, 5 * UNIDAD}

InitEscenario == InitCon({LibroConCatalogo})

NextEscenario ==
    \/ IniciarSesion("A", SinFallos)
    \/ Login("A", SinFallos, "gerente")
    \/ \E a \in EntradasEscenario : EntradaHasta(MaxEscenario, "A", SinFallos, "Ron", a, "Almacen", hoy)
    \/ \E b \in TransferenciasEscenario : TransferenciaHasta(MaxEscenario, "A", SinFallos, "Ron", b, "Almacen", "Bar", hoy)
    \/ \E c \in SalidasEscenario : SalidaBotellaHasta(MaxEscenario, "A", SinFallos, "Ron", c, "Bar", hoy)

SpecEscenario == InitEscenario /\ [][NextEscenario]_vars

\* The ledger holds exactly an Entry of a at Almacen, then a Transfer of b
\* from Almacen to Bar, then a bottle exit of c at Bar.
EsEscenario(filas, a, b, c) ==
    /\ Len(filas) = 4
    /\ Es(filas[1], "Entrada", "Ron", a, "Almacen")
    /\ {<<filas[i].Tipo, filas[i].Producto, filas[i].Cantidad, filas[i].Ubicacion>> : i \in 2..3} = {<<"Transferencia", "Ron", 0 - b, "Almacen">>, <<"Transferencia", "Ron", b, "Bar">>}
    /\ Es(filas[4], "Salida Botella", "Ron", 0 - c, "Bar")

\* C15: starting from an empty ledger, after Entry a at Almacen, Transfer b
\* from Almacen to Bar and Exit-Bottle c at Bar, calcular_stock has exactly
\* the two rows (Ron, Almacen, a - b) and (Ron, Bar, b - c); with 12, 5 and
\* 2 these are 7 and 3.
C15_Escenario ==
    \A a \in EntradasEscenario, b \in TransferenciasEscenario, c \in SalidasEscenario :
        EsEscenario(session_state["A"].Inventario.filas, a, b, c) =>
            calcular_stock(session_state["A"].Inventario) = <<[Producto |-> "Ron", Ubicacion |-> "Almacen", Stock |-> a - b], [Producto |-> "Ron", Ubicacion |-> "Bar", Stock |-> b - c]>>

\* Entry 12, Transfer 5 and Exit-Bottle 2 were recorded in that order and
\* the stock table reads Almacen 7, Bar 3.
C15_Witness ==
    /\ ev.op = "SalidaBotella"
    /\ EsEscenario(session_state["A"].Inventario.filas, 12 * UNIDAD, 5 * UNIDAD, 2 * UNIDAD)
    /\ calcular_stock(session_state["A"].Inventario) = <<[Producto |-> "Ron", Ubicacion |-> "Almacen", Stock |-> 7 * UNIDAD], [Producto |-> "Ron", Ubicacion |-> "Bar", Stock |-> 3 * UNIDAD]>>

\* C16: an Exit-Drink against a drink that has no recipe line in the
\* session's recipe book appends no ledger entry and changes none of
\* Inventario, Salidas and Consumos, in the session or in the spreadsheet.
C16_TragoSinReceta ==
    [][(ev'.op = "SalidaTrago" /\ SelectSeq(session_state[ev'.sesion].Recetas.filas, LAMBDA r : r.Trago = ev'.producto) = <<>>) =>
        /\ \A h \in {"Inventario", "Salidas", "Consumos"} :
            /\ session_state'[ev'.sesion][h] = session_state[ev'.sesion][h]
            /\ sheets'[h] = sheets[h]
            /\ \A i \in 1..Len(ev'.escrituras) : ev'.escrituras[i] # h
        /\ ev'.res = "sin recetas"]_vars

\* With one entry in the ledger and no recipes, the operator asked for a
\* Mojito and the run left the ledger with its single entry.
C16_Witness == ev.op = "SalidaTrago" /\ ev.res = "sin recetas" /\ ev.producto = "Mojito" /\ Len(session_state["A"].Inventario.filas) = 1 /\ session_state["A"].Salidas.filas = <<>>

\* C17: a saved daily audit is accepted, and every row whose physical
\* count the operator did not enter gets an AuditRecord with Stock_Fisico
\* equal to the theoretical stock and Diferencia = 0.
C17_SinConteo ==
    [][(ev'.op = "GuardarAuditoria" /\ \E i \in 1..Len(ev'.tecleado) : ev'.tecleado[i] = <<>>) =>
        LET m == session_state[ev'.sesion]
            m2 == session_state'[ev'.sesion]
            n == Nuevos(m.Auditoria_Diaria.filas, m2.Auditoria_Diaria.filas)
        IN  /\ ev'.res = "ok"
            /\ Len(n) = Len(ev'.tecleado)
            /\ \A i \in 1..Len(n) : ev'.tecleado[i] = <<>> =>
                /\ n[i].Stock_Fisico = n[i].Stock_Teorico
                /\ n[i].Diferencia = 0]_vars

\* ------------------------------------------------------------------------
\* SpecRecarga: the manager saves daily audits of Almacen and refreshes;
\* the read of one sheet may fail during a refresh.
\* ------------------------------------------------------------------------
\* Sheets calls of a refresh whose i-th read raises.
LecturaFallida(i) == [n \in 1..i |-> IF n = i THEN [r |-> "error", k |-> 0] ELSE RedOk]

\* Position of a sheet in the refresh loop.
Posicion(hoja) == CHOOSE i \in 1..Len(Hojas) : Hojas[i] = hoja

LecturasRecarga == {SinFallos, LecturaFallida(Posicion("Auditoria_Diaria"))}

NextRecarga ==
    \/ IniciarSesion("A", SinFallos)
    \/ Login("A", SinFallos, "gerente")
    \/ \E c \in Conteos : GuardarAuditoria("A", SinFallos, hoy, "Cierre", "Almacen", c)
    \/ \E red \in LecturasRecarga : ActualizarDatos("A", red)

SpecRecarga == Init /\ [][NextRecarga]_vars

\* C18: a daily-audit save appends its AuditRecords and StockFisico rows
\* after the ones already saved, also for a key saved before, and no step
\* of any operation modifies or removes a saved AuditRecord or StockFisico
\* row, in the session or in the spreadsheet (rows compared as their text).
C18_AuditoriaSoloCrece ==
    [][/\ \A s \in Sesiones, h \in {"Auditoria_Diaria", "StockFisico"} : EsPrefijo(Textos(session_state[s][h].filas), Textos(session_state'[s][h].filas))
       /\ \A h \in {"Auditoria_Diaria", "StockFisico"} : EsPrefijo(Textos(sheets[h].filas), Textos(sheets'[h].filas))
       /\ (ev'.op = "GuardarAuditoria" /\ ev'.res = "ok") =>
            \A h \in {"Auditoria_Diaria", "StockFisico"} : Len(session_state'[ev'.sesion][h].filas) = Len(session_state[ev'.sesion][h].filas) + Len(ev'.fisico)]_vars

\* The interactions that ask for the weekly rollup: the Auditoria Semanal
\* section has no button and no form.
DisparadoresSemanal == {}

ClaveSemanal(f) == <<f.Semana, f.Producto, f.Ubicacion>>

SinRepetidos(filas) == \A i, j \in 1..Len(filas) : ClaveSemanal(filas[i]) = ClaveSemanal(filas[j]) => i = j

\* C19: after every step Auditoria_Semanal holds at most one record per
\* (week identifier, product, location), in each session and in the
\* spreadsheet, and it grows only in a step in which the user explicitly
\* triggered the weekly rollup.
C19_ResumenUnaVez ==
    [][/\ \A s \in Sesiones : SinRepetidos(session_state'[s].Auditoria_Semanal.filas)
       /\ SinRepetidos(sheets'.Auditoria_Semanal.filas)
       /\ \A s \in Sesiones : Len(session_state'[s].Auditoria_Semanal.filas) > Len(session_state[s].Auditoria_Semanal.filas) => ev'.op \in DisparadoresSemanal]_vars

\* ------------------------------------------------------------------------
\* SpecLote: session A records transfers whose export of Inventario may
\* fail before the sheet is cleared or after some rows were appended;
\* both sessions may refresh, session B opens the application later.
\* ------------------------------------------------------------------------
\* ws.append_row raises after k rows were written.
CorteTras(k) == <<[r |-> "corte", k |-> k]>>

FallosLote == {SinFallos, <<[r |-> "antes", k |-> 0]>>} \cup {CorteTras(k) : k \in 1..MaxInventario}

NextLote ==
    \/ \E s \in Sesiones : IniciarSesion(s, SinFallos)
    \/ \E s \in Sesiones : Login(s, SinFallos, "gerente")
    \/ \E red \in FallosLote : Transferencia("A", red, "Ron", UNIDAD, "Almacen", "Bar", hoy)
    \/ \E s \in Sesiones : ActualizarDatos(s, SinFallos)

SpecLote == Init /\ [][NextLote]_vars

\* Every Transfer debit in the ledger is followed by its credit and every
\* credit preceded by its debit.
LotesCompletos(filas) ==
    \A i \in 1..Len(filas) : filas[i].Tipo = "Transferencia" =>
        IF filas[i].Cantidad < 0
        THEN i < Len(filas) /\ filas[i + 1].Tipo = "Transferencia" /\ filas[i + 1].Producto = filas[i].Producto /\ filas[i + 1].Cantidad = 0 - filas[i].Cantidad
        ELSE i > 1 /\ filas[i - 1].Tipo = "Transferencia" /\ filas[i - 1].Producto = filas[i].Producto /\ filas[i - 1].Cantidad = 0 - filas[i].Cantidad

\* C20: the ledger a stock read works on, in any session (its own entries
\* or the Inventario table loaded from the spreadsheet), holds the entries
\* of each operation all together or not at all, also after a write that
\* failed part-way.
C20_LoteAtomico == \A s \in Sesiones : LotesCompletos(session_state[s].Inventario.filas)

NombresUnicos(filas) == \A i, j \in 1..Len(filas) : filas[i].Nombre = filas[j].Nombre => i = j

\* C21: after every step no two Catalog rows have the same Nombre, in any
\* session and in the spreadsheet, and an addition with an empty name
\* leaves the Catalog as it was.
C21_NombreUnico ==
    [][/\ \A s \in Sesiones : NombresUnicos(session_state'[s].Catalogo.filas)
       /\ NombresUnicos(sheets'.Catalogo.filas)
       /\ (ev'.op = "AgregarCatalogo" /\ ev'.producto = "") =>
            /\ ev'.res = "rechazada"
            /\ session_state'[ev'.sesion].Catalogo = session_state[ev'.sesion].Catalogo
            /\ sheets'.Catalogo = sheets.Catalogo]_vars

\* ------------------------------------------------------------------------
\* Recorder operations whose writes fail
\* ------------------------------------------------------------------------
\* Outcomes of the Sheets calls of a recorder run: as FallosEscritura, or the
\* ledger export succeeds and the export of the operation log fails.
FallosRegistro == FallosEscritura \cup {<<RedOk, [r |-> "antes", k |-> 0]>>}

NextRegistro ==
    \/ IniciarSesion("A", SinFallos)
    \/ Login("A", SinFallos, "gerente")
    \/ \E red \in FallosRegistro, l \in {"Almacen", "Bar"} : Entrada("A", red, "Ron", UNIDAD, l, hoy)
    \/ \E red \in FallosRegistro : SalidaBotella("A", red, "Ron", UNIDAD, "Almacen", hoy)

SpecRegistro == Init /\ [][NextRegistro]_vars

BitacoraDe(op) == IF op = "Entrada" THEN "Entradas" ELSE "Salidas"

FalloEn(red, i) == Len(red) >= i /\ red[i].r # "ok"

\* C22: a recorder run in which a write fails keeps the ledger row it
\* appended in memory, appends its record to the operation log in memory,
\* still attempts both writes and ends as recorded; when it was the ledger
\* write that failed, the sheet Inventario differs from the ledger in memory
\* afterwards, and a run whose ledger write succeeds makes them equal again.
C22_FalloNoRevierte ==
    [][ev'.op \in {"Entrada", "SalidaBotella"} =>
         LET m == session_state[ev'.sesion]
             m2 == session_state'[ev'.sesion]
             b == BitacoraDe(ev'.op)
         IN  /\ (FalloEn(ev'.red, 1) \/ FalloEn(ev'.red, 2)) =>
                  /\ Len(m2.Inventario.filas) = Len(m.Inventario.filas) + 1
                  /\ EsPrefijo(m.Inventario.filas, m2.Inventario.filas)
                  /\ Len(m2[b].filas) = Len(m[b].filas) + 1
                  /\ EsPrefijo(m[b].filas, m2[b].filas)
                  /\ ev'.escrituras = <<"Inventario", b>>
                  /\ ev'.res = "ok"
             /\ FalloEn(ev'.red, 1) => sheets'.Inventario.filas # Textos(m2.Inventario.filas)
             /\ ~FalloEn(ev'.red, 1) => sheets'.Inventario.filas = Textos(m2.Inventario.filas)]_vars

\* A recorder run whose ledger write was cut has ended as recorded, and the
\* sheet holds fewer rows than the ledger in memory.
C22_Witness ==
    /\ ev.op = "Entrada"
    /\ ev.res = "ok"
    /\ FalloEn(ev.red, 1)
    /\ Len(sheets.Inventario.filas) < Len(session_state[ev.sesion].Inventario.filas)

\* ------------------------------------------------------------------------
\* Two sessions over the same spreadsheet
\* ------------------------------------------------------------------------
NextDosSesiones ==
    \/ \E s \in Sesiones : IniciarSesion(s, SinFallos)
    \/ \E s \in Sesiones : Login(s, SinFallos, "gerente")
    \/ \E s \in Sesiones, l \in {"Almacen", "Bar"} : Entrada(s, SinFallos, "Ron", UNIDAD, l, hoy)
    \/ \E s \in Sesiones : SalidaBotella(s, SinFallos, "Ron", UNIDAD, "Almacen", hoy)

SpecDosSesiones == Init /\ [][NextDosSesiones]_vars

\* C23: with no write failing, every recorder run leaves in the sheet
\* Inventario exactly the ledger of the session that ran it, whatever
\* another session had saved there before; with one session the sheet
\* therefore equals the ledger in memory after every recorder run.
C23_GuardadoReescribe ==
    [][ev'.op \in {"Entrada", "SalidaBotella"} =>
         sheets'.Inventario = astype_str(session_state'[ev'.sesion].Inventario)]_vars

\* Lost update: both sessions loaded the same rows, A recorded an entry, B
\* recorded afterwards, and the sheet no longer holds A's entry.
C23_Witness ==
    /\ ev.op \in {"Entrada", "SalidaBotella"}
    /\ ev.sesion = "B"
    /\ Len(session_state["A"].Inventario.filas) = 2
    /\ Len(session_state["B"].Inventario.filas) = 2
    /\ session_state["A"].Inventario.filas[1] = session_state["B"].Inventario.filas[1]
    /\ \A i \in 1..Len(sheets.Inventario.filas) :
         sheets.Inventario.filas[i] # fila_a_texto(session_state["A"].Inventario.filas[2])

\* ------------------------------------------------------------------------
\* One session used by each of the four users in turn
\* ------------------------------------------------------------------------
NextRoles ==
    \/ IniciarSesion("A", SinFallos)
    \/ \E u \in DOMAIN USUARIOS : Login("A", SinFallos, u)
    \/ Entrada("A", SinFallos, "Ron", UNIDAD, "Bar", hoy)
    \/ Transferencia("A", SinFallos, "Ron", UNIDAD, "Almacen", "Bar", hoy)
    \/ Devolucion("A", SinFallos, "Ron", UNIDAD, EXTERNO, "Bar", hoy)
    \/ SalidaBotella("A", SinFallos, "Ron", UNIDAD, "Almacen", hoy)
    \/ SalidaTrago("A", SinFallos, "CubaLibre", 1, "Bar", hoy)
    \/ AgregarCatalogo("A", SinFallos, "Gin", 0)
    \/ RegistrarReceta("A", SinFallos, "Shot", "Ron", 50)
    \/ GuardarAuditoria("A", SinFallos, HOY - 7, "Cierre", "Almacen", <<<<>>>>)

SpecRoles == Init /\ [][NextRoles]_vars

TablasDeAlmacen == {"Catalogo", "Recetas", "Entradas", "Transferencias", "StockFisico", "Auditoria_Diaria", "Auditoria_Semanal"}

\* C24: a run of a session whose role is neither almacenista nor admin adds
\* no Entrada or Transferencia row to the ledger and changes none of
\* Catalogo, Recetas, Entradas, Transferencias, StockFisico, Auditoria_Diaria
\* and Auditoria_Semanal; a bartender's run adds only Salida Botella, Salida
\* Trago and Devolucion rows; a supervisor's run leaves every sheet as it was
\* and the rows of every table in memory as they were.
C24_EscriturasPorRol ==
    [][LET s == ev'.sesion
           rol == session_state'[s].rol
           nuevos == Nuevos(session_state[s].Inventario.filas, session_state'[s].Inventario.filas)
       IN  /\ rol \in {"bartender", "supervisor"} =>
                /\ EsPrefijo(session_state[s].Inventario.filas, session_state'[s].Inventario.filas)
                /\ \A i \in 1..Len(nuevos) : nuevos[i].Tipo \notin {"Entrada", "Transferencia"}
                /\ \A h \in TablasDeAlmacen : sheets'[h] = sheets[h] /\ session_state'[s][h] = session_state[s][h]
           /\ rol = "bartender" =>
                \A i \in 1..Len(nuevos) : nuevos[i].Tipo \in {"Salida Botella", "Salida Trago", "Devolucion"}
           /\ rol = "supervisor" =>
                /\ sheets' = sheets
                /\ \A h \in Rango(Hojas) : session_state'[s][h].filas = session_state[s][h].filas]_vars

\* The supervisor looks at a spreadsheet that holds an audit of last week:
\* the weekly section has rows to summarise.
C24_Witness ==
    /\ ev.op = "Login"
    /\ session_state["A"].rol = "supervisor"
    /\ \E i \in 1..Len(session_state["A"].Auditoria_Diaria.filas) : mask(session_state["A"].Auditoria_Diaria.filas[i], hoy)

\* C25: the recorders do not look at the stock.  Every Exit-Bottle, Exit-Drink
\* and Return ends as recorded, and a Transfer is refused only when origin
\* and destination coincide; an Exit-Bottle, Transfer or Return from a
\* location that holds less than q (or nothing) of the product, to another
\* place, appends its entries and takes q from that location, whose stock
\* ends below zero; an
\* Exit-Drink takes each ingredient from the location whatever it holds.
C25_SinControlDeExistencia ==
    [][ev'.op \in {"SalidaBotella", "SalidaTrago", "Transferencia", "Devolucion"} =>
         LET m == session_state[ev'.sesion]
             m2 == session_state'[ev'.sesion]
             n == Nuevos(m.Inventario.filas, m2.Inventario.filas)
             p == ev'.producto
             q == ev'.cantidad
             o == ev'.origen
         IN  /\ ev'.res = "ok" \/ (ev'.op = "Transferencia" /\ ev'.res = "rechazada" /\ o = ev'.destino)
             /\ (ev'.res = "ok" /\ ev'.op # "SalidaTrago" /\ o \in Ubic /\ o # ev'.destino /\ stock(m.Inventario, p, o) < q) =>
                  /\ EsPrefijo(m.Inventario.filas, m2.Inventario.filas)
                  /\ \E i \in 1..Len(n) : n[i].Producto = p /\ n[i].Ubicacion = o /\ n[i].Cantidad = -q
                  /\ stock(m2.Inventario, p, o) = stock(m.Inventario, p, o) - q
                  /\ stock(m2.Inventario, p, o) < 0
             /\ (ev'.res = "ok" /\ ev'.op = "SalidaTrago") =>
                  /\ EsPrefijo(m.Inventario.filas, m2.Inventario.filas)
                  /\ Len(n) >= 1
                  /\ \A i \in 1..Len(n) :
                       /\ n[i].Cantidad < 0 /\ n[i].Ubicacion = o
                       /\ stock(m.Inventario, n[i].Producto, o) < -n[i].Cantidad =>
                            stock(m2.Inventario, n[i].Producto, o) < 0]_vars

\* A bottle exit was recorded at a location without any entry of the
\* product, which now shows a negative stock.
C25_Witness ==
    /\ ev.op = "SalidaBotella" /\ ev.res = "ok"
    /\ IndicesDe(session_state[ev.sesion].Inventario.filas, ev.producto, ev.origen) # {}
    /\ \A i \in IndicesDe(session_state[ev.sesion].Inventario.filas, ev.producto, ev.origen) :
         session_state[ev.sesion].Inventario.filas[i].Tipo = "Salida Botella"
    /\ stock(session_state[ev.sesion].Inventario, ev.producto, ev.origen) < 0

\* C26: an Exit-Drink of s servings appends exactly one record to the
\* Salidas log, with Producto/Trago the drink's name and Cantidad = -s
\* (in thousandths), and no new ledger entry has the drink's name as its
\* Producto: the new entries are against the recipe's ingredients.
C26_ResumenDeTrago ==
    [][(ev'.op = "SalidaTrago" /\ ev'.res = "ok") =>
        LET m == session_state[ev'.sesion]
            m2 == session_state'[ev'.sesion]
            lineas == SelectSeq(m.Recetas.filas, LAMBDA f : f.Trago = ev'.producto)
            n == Nuevos(m.Inventario.filas, m2.Inventario.filas)
            r == Nuevos(m.Salidas.filas, m2.Salidas.filas)
        IN  /\ EsPrefijo(m.Salidas.filas, m2.Salidas.filas)
            /\ Len(r) = 1
            /\ r[1].ProductoTrago = ev'.producto
            /\ r[1].Cantidad = -(ev'.cantidad * UNIDAD)
            /\ r[1].Tipo = "Salida Trago"
            /\ EsPrefijo(m.Inventario.filas, m2.Inventario.filas)
            /\ \A i \in 1..Len(n) :
                 /\ n[i].Producto # ev'.producto
                 /\ \E k \in 1..Len(lineas) : n[i].Producto = lineas[k].Ingrediente]_vars

\* Two servings of CubaLibre were recorded: the last Salidas record is the
\* summary of -2 for the drink.
C26_Witness ==
    /\ ev.op = "SalidaTrago" /\ ev.res = "ok" /\ ev.cantidad = 2
    /\ LET s == session_state[ev.sesion].Salidas.filas
       IN  s # <<>> /\ s[Len(s)].ProductoTrago = "CubaLibre" /\ s[Len(s)].Cantidad = -(2 * UNIDAD)

\* ------------------------------------------------------------------------
\* Start-up and refresh with a read that fails
\* ------------------------------------------------------------------------
NextArranque ==
    \/ \E red \in FallosLectura : IniciarSesion("A", red)
    \/ Login("A", SinFallos, "gerente")
    \/ \E red \in FallosLectura : ActualizarDatos("A", red)
    \/ \E l \in {"Almacen", "Bar"} : Entrada("A", SinFallos, "Ron", UNIDAD, l, hoy)
    \/ SalidaBotella("A", SinFallos, "Ron", UNIDAD, "Almacen", hoy)

SpecArranque == Init /\ [][NextArranque]_vars

\* C27: the first run of a session leaves the rows of every sheet as they
\* were, also when a read fails, and a recorder's save after a refresh keeps
\* every row the sheet Inventario held.
C27_ArranqueConserva ==
    [][/\ ev'.op = "IniciarSesion" => \A h \in Rango(Hojas) : sheets'[h].filas = sheets[h].filas
       /\ ev'.op \in {"Entrada", "SalidaBotella"} => EsPrefijo(sheets.Inventario.filas, sheets'.Inventario.filas)]_vars

\* C28: a run that only renders the views leaves the ledger in memory as it
\* was, rows and columns, and every export of Inventario writes exactly the
\* six columns Fecha, Tipo, Producto, Cantidad, Ubicacion, Usuario.
C28_VistasNoTocan ==
    [][/\ ev'.op = "Login" => session_state'[ev'.sesion].Inventario = session_state[ev'.sesion].Inventario
       /\ (\E i \in 1..Len(ev'.escrituras) : ev'.escrituras[i] = "Inventario") =>
            sheets'.Inventario.columnas = hojas_y_columnas.Inventario]_vars

\* C29: saving a daily audit leaves the ledger as it was, in memory and in
\* the sheet, so every pair keeps its theoretical stock; StockFisico and
\* Auditoria_Diaria receive the same number of rows, and the rows at the
\* same position agree in date, product, location, shift and physical count.
C29_AuditoriaNoAjusta ==
    [][(ev'.op = "GuardarAuditoria" /\ ev'.res = "ok") =>
        LET m == session_state[ev'.sesion]
            m2 == session_state'[ev'.sesion]
            a == Nuevos(m.Auditoria_Diaria.filas, m2.Auditoria_Diaria.filas)
            f == Nuevos(m.StockFisico.filas, m2.StockFisico.filas)
        IN  /\ m2.Inventario = m.Inventario
            /\ sheets'.Inventario = sheets.Inventario
            /\ \A p \in ProductosLibro, l \in Ubic : stock(m2.Inventario, p, l) = stock(m.Inventario, p, l)
            /\ EsPrefijo(m.StockFisico.filas, m2.StockFisico.filas)
            /\ EsPrefijo(m.Auditoria_Diaria.filas, m2.Auditoria_Diaria.filas)
            /\ Len(f) = Len(a)
            /\ Len(Nuevos(sheets.StockFisico.filas, sheets'.StockFisico.filas)) = Len(Nuevos(sheets.Auditoria_Diaria.filas, sheets'.Auditoria_Diaria.filas))
            /\ \A i \in 1..Len(a) :
                 /\ f[i].Fecha = a[i].Fecha
                 /\ f[i].Producto = a[i].Producto
                 /\ f[i].Ubicacion = a[i].Ubicacion
                 /\ f[i].Turno = a[i].Turno
                 /\ f[i].Stock_Fisico = a[i].Stock_Fisico]_vars

\* An audit with eight bottles counted against ten in the ledger was saved:
\* StockFisico ends with the count of eight and the stock is still ten.
C29_Witness ==
    /\ ev.op = "GuardarAuditoria" /\ ev.res = "ok"
    /\ LET f == session_state[ev.sesion].StockFisico.filas
       IN  /\ f # <<>>
           /\ f[Len(f)].Stock_Fisico = 8 * UNIDAD
           /\ stock(session_state[ev.sesion].Inventario, f[Len(f)].Producto, f[Len(f)].Ubicacion) = EXISTENCIA

\* ------------------------------------------------------------------------
\* The five recorders over a ledger and logs that start empty
\* ------------------------------------------------------------------------
InitBitacoras == InitCon({LibroConCatalogo})

NextBitacoras ==
    \/ IniciarSesion("A", SinFallos)
    \/ Login("A", SinFallos, "gerente")
    \/ \E l \in {"Almacen", "Bar"} : Entrada("A", SinFallos, "Ron", UNIDAD, l, hoy)
    \/ \E o, d \in {"Almacen", "Bar"} : Transferencia("A", SinFallos, "Ron", UNIDAD, o, d, hoy)
    \/ \E o \in {EXTERNO, "Bar"} : Devolucion("A", SinFallos, "Ron", UNIDAD, o, "Almacen", hoy)
    \/ SalidaBotella("A", SinFallos, "Ron", UNIDAD, "Bar", hoy)
    \/ \E n \in {1, 2} : SalidaTrago("A", SinFallos, "CubaLibre", n, "Bar", hoy)

SpecBitacoras == InitBitacoras /\ [][NextBitacoras]_vars

Cuenta(filas, P(_)) == Cardinality({i \in 1..Len(filas) : P(filas[i])})

DeTipo(filas, tipo) == Cuenta(filas, LAMBDA f : f.Tipo = tipo)

====
